---- MODULE Spec2Model ----
(***************************************************************************)
(* Token lifecycle and access-decision cache of the project-management     *)
(* API: the Express middleware chain (authenticate, validateProjectAccess, *)
(* validateProjectOwner, validateProjectMember), the auth controller       *)
(* (register, login, logout) and the project controller, over one shared   *)
(* Redis cache and one MongoDB datastore.                                  *)
(*                                                                         *)
(* A request is a record in a client's slot; every action is one step of a *)
(* middleware or handler, from one awaited call to the next.  Time is the  *)
(* clock in seconds (Math.floor(Date.now() / 1000)).                       *)
(***************************************************************************)
EXTENDS Integers, FiniteSets, Sequences, TLC

\* ----------------------------------------------------------------- bounds
MaxTokens == 2         \* access tokens issued over a run
MaxProjects == 1       \* projects created over a run
MaxTasks == 1          \* tasks created over a run
MaxRestarts == 1       \* workers the primary forks again over a run

Clients == {"c1", "c2"}          \* concurrent connections, one request each
Users == {"u1", "u2"}            \* subject ids (one e-mail address each)
Projects == {"p1", "p2"}         \* project ids the datastore may hand out
Workers == {"w1", "w2"}
Tasks == {"t1", "t2"}            \* task ids the datastore may hand out
Instants == {0, 600, 3600}       \* the instants the clock is read at, in seconds

\* ------------------------------------------------------ program constants
AccessTokenLifetime == 900       \* jwt.sign(..., { expiresIn: '15m' })
RefreshTokenLifetime == 604800   \* jwt.sign(..., { expiresIn: '7d' })
RefreshRecordTTL == 604800       \* { EX: 7 * 24 * 60 * 60 }
ProjectAccessTTL == 3600         \* {'EX':3600} in validateProjectAccess
TaskAccessTTL == 3600            \* validateTaskAccess: SET ... EX 3600
UserCacheTTL == 3600             \* config.redis.ttl.user
ProjectListTTL == 3600           \* getProjects: SET ... EX 3600

Roles == {"admin", "manager", "member"}

\* ------------------------------------------------------------------ tokens
\* A JSON web token is determined by its payload and the key that signed it:
\* kind "access" is signed with JWT_SECRET, kind "refresh" with
\* JWT_REFRESH_SECRET, "badsig" carries a signature of neither and
\* "malformed" is not of the form header.payload.signature.
NoTok == [kind |-> "none", sub |-> "", role |-> "", iat |-> 0, exp |-> 0]
Malformed == [kind |-> "malformed", sub |-> "", role |-> "", iat |-> 0, exp |-> 0]

SignAccess(u, role, t) ==
    [kind |-> "access", sub |-> u, role |-> role, iat |-> t,
     exp |-> t + AccessTokenLifetime]

SignRefresh(u, t) ==
    [kind |-> "refresh", sub |-> u, role |-> "", iat |-> t,
     exp |-> t + RefreshTokenLifetime]

Forged(u) ==
    [kind |-> "badsig", sub |-> u, role |-> "admin", iat |-> 0,
     exp |-> RefreshTokenLifetime]

\* jwt.verify(token, JWT_SECRET) at clock t: structure, then signature, then exp.
JwtVerify(tok, t) ==
    IF tok.kind = "malformed" THEN "JsonWebTokenError"
    ELSE IF tok.kind # "access" THEN "JsonWebTokenError"
    ELSE IF t >= tok.exp THEN "TokenExpiredError"
    ELSE "ok"

\* ------------------------------------------------------------------- cache
\* A Redis key is a string; its parts are kept apart here.  An entry is
\* [key, sval, tval, exp]: the value is the string sval or the token tval,
\* and exp is the instant the entry expires (the instant of the SET plus EX).
Key(ns, res, tail, sub, tok) ==
    [ns |-> ns, res |-> res, tail |-> tail, sub |-> sub, tok |-> tok]

\* A blacklist key per subject: every token of the subject under one name.
BlacklistKeyOfSubject(tok) == Key("blacklist", "", "", tok.sub, NoTok)

BlacklistKey(tok)    == Key("blacklist", "", "", "", tok)     \* blacklist:<token>
RefreshKey(u)        == Key("refresh", "", "", u, NoTok)      \* refresh:<userId>
UserKey(u)           == Key("user", "", "", u, NoTok)         \* user:<userId>
ProjectUserKey(p, u) == Key("project", p, "user", u, NoTok)   \* project:<id>:user:<userId>
ProjectStarKey(p)    == Key("project", p, "*", "", NoTok)     \* project:<id>:*
ProjectsUserKey(u)   == Key("projects", "", "user", u, NoTok) \* projects:user:<userId>
ProjectsStarKey      == Key("projects", "", "*", "", NoTok)   \* projects:*
TaskUserKey(t, u)    == Key("task", t, "user", u, NoTok)      \* task:<id>:user:<userId>

NoEntry == [key |-> Key("", "", "", "", NoTok), sval |-> "", tval |-> NoTok, exp |-> 0]

\* redisClient.get(key): the entry, or NoEntry for null.
RedisGet(c, k, t) ==
    IF \E e \in c : e.key = k /\ e.exp > t
    THEN CHOOSE e \in c : e.key = k /\ e.exp > t
    ELSE NoEntry

\* GET with the side effect of GETEX: the entry read lives ex seconds more.
RedisAfterGetEx(c, k, ex, t) ==
    {IF e.key = k /\ e.exp > t THEN [e EXCEPT !.exp = t + ex] ELSE e : e \in c}

\* The store after redisClient.get(key): GET writes nothing, neither the
\* value nor the expiry of the entry it reads.
RedisAfterGet(c, k, ex, t) == c

\* SET without EX: the entry has no expiry (TTL reports -1 for such a key).
RedisSetPersistent(c, k, sv, tv, ex, t) ==
    {e \in c : e.key # k} \cup {[key |-> k, sval |-> sv, tval |-> tv, exp |-> -1]}

\* redisClient.set(key, value, { EX: ex }): one command sets value and expiry.
RedisSet(c, k, sv, tv, ex, t) ==
    {e \in c : e.key # k} \cup {[key |-> k, sval |-> sv, tval |-> tv, exp |-> t + ex]}

\* redisClient.del(key): DEL removes the key of exactly that name.
RedisDel(c, k) == {e \in c : e.key # k}

\* ------------------------------------------------------------------- state
VARIABLES
    now,        \* the clock, in seconds
    users,      \* datastore, users collection: id -> role, "absent" or "deleted"
    projects,   \* datastore, projects collection: id -> document or NoDoc
    cache,      \* the Redis keyspace: a set of entries, one per key
    reqs,       \* client -> its request (the Express req/res pair and its position)
    issued,     \* access tokens returned to clients so far
    refreshIssued, \* refresh tokens returned to clients so far
    lastRefresh,   \* subject -> refresh token of the most recent generateAuthTokens
    loggedOut,     \* access tokens whose logout has answered success
    lastCheck,     \* <<project, subject>> -> decision of the last completed access check
    added,         \* <<project, subject>> an add-member request has handled
    removed,       \* <<project, subject>> a remove-member request has answered success
    tasks,         \* datastore, tasks collection: id -> document or NoTask
    profiles,      \* datastore, users collection: id -> password hash and profession
    workers        \* worker slot of the cluster -> the process that fills it

vars == <<now, users, projects, cache, reqs, issued, refreshIssued, lastRefresh,
          loggedOut, lastCheck, added, removed, tasks, profiles, workers>>

NoDoc == [id |-> "", createdBy |-> "", members |-> {}]

\* A deleted project: its id is never handed out again.
Gone == [id |-> "gone", createdBy |-> "", members |-> {}]

\* Project.findById(id): the document, or NoDoc for null.
ProjectFindById(ps, id) == IF ps[id] = Gone THEN NoDoc ELSE ps[id]
NoUser == [id |-> "", role |-> ""]
NoTask == [id |-> "", project |-> "", assignedTo |-> ""]

\* What a user document holds besides its role: the bcrypt hash of the
\* password and, for a member, the profession.
NoProfile == [password |-> "", professionRoleType |-> ""]
BcryptHash(password) == IF password = "" THEN "" ELSE "$2b$" \o password

\* A process of the cluster: gen counts the forks of its slot, proc is
\* "running" or "exited", listening is TRUE once app.listen has run, redis is
\* the state of its Redis client ("connecting" for the first connection,
\* "ready", "reconnecting" after a loss, "closed" once it has given up),
\* retries is the argument of the next reconnectStrategy call and delay the
\* last wait it returned.  The module scope of a process holds the Redis
\* client and nothing about tokens or permissions; handled (the logouts this
\* process has answered) and bornAfter (the tokens logged out before it was
\* forked) record the run, exit why the process has exited ("signal", or
\* "redis" for the process.exit(1) of the failed first connection).
Forked(gen, revoked) ==
    [gen |-> gen, proc |-> "running", listening |-> FALSE, redis |-> "connecting",
     retries |-> 0, delay |-> 0, handled |-> {}, bornAfter |-> revoked,
     exit |-> ""]

\* A process after startServer has returned and the Redis client is ready.
Started == [Forked(0, {}) EXCEPT !.listening = TRUE, !.redis = "ready"]


\* ---------------------------------------------------------------- requests
\* The Express request and response of one client: the route and its inputs,
\* the position in the middleware chain (stage, pc), the fields the middleware
\* attach (user, token, projectDocument, userDocument, userToAdd), the locals
\* a handler keeps across an await (project, hasAccess, expiresIn), the
\* response (status 0: none sent yet), and the record of what the request did:
\* ops (the awaited calls, in order), authNext (calls of next by authenticate),
\* failStage (why authenticate refused), chk (the access check's outcome: the
\* decision, the decision of the check completed before it, the datastore
\* reads it made), outage (a Redis command of this request was rejected).
NoCheck == [dec |-> "none", prev |-> "none", reads |-> 0]

Idle ==
    [route |-> "", stage |-> 0, pc |-> "idle",
     scheme |-> "none", tok |-> NoTok, pid |-> "", target |-> "",
     tid |-> "", allowed |-> {}, task |-> NoTask, worker |-> "", gen |-> 0,
     email |-> "", password |-> "", role |-> "", profession |-> "", type |-> "",
     user |-> NoUser, token |-> NoTok,
     projectDocument |-> NoDoc, userDocument |-> NoUser, userToAdd |-> NoUser,
     project |-> NoDoc, hasAccess |-> FALSE, expiresIn |-> 0,
     status |-> 0, message |-> "",
     ops |-> << >>, authNext |-> 0, failStage |-> "", chk |-> NoCheck,
     afterLogout |-> FALSE, afterAdd |-> FALSE, afterRemove |-> FALSE,
     hadCached |-> FALSE, registered |-> FALSE, overlap |-> FALSE,
     outage |-> FALSE, data |-> {}]

\* The middleware chain of each route: routes/index.ts mounts authenticate in
\* front of the project router, whose router.use(authenticate) runs it again.
\* A task route matches no route of the project router and runs both, then
\* the authenticate of the task router's mount and the route's own.
\* "guardedTask" is GET /:taskId with validateTaskAccess in front of the
\* handler, the use the middleware is exported for; no router of the
\* repository mounts it.
Pipeline(route) ==
    CASE route = "register" -> <<"register">>
      [] route = "login" -> <<"login">>
      [] route = "logout" -> <<"authenticate", "logout">>
      [] route = "refresh-token" -> <<"notFoundHandler">>
      [] route = "createProject" ->
            <<"authenticate", "authenticate", "validateProjectCreation",
              "validateProjectType", "createProject">>
      [] route = "getProjects" -> <<"authenticate", "authenticate", "getProjects">>
      [] route = "getProjectById" ->
            <<"authenticate", "authenticate", "validateProjectAccess", "getProjectById">>
      [] route \in {"updateProject", "deleteProject"} ->
            <<"authenticate", "authenticate", "validateProjectAccess",
              "validateProjectOwner", route>>
      [] route = "addProjectMember" ->
            <<"authenticate", "authenticate", "validateProjectAccess",
              "validateProjectMember", "addProjectMember">>
      [] route = "removeProjectMember" ->
            <<"authenticate", "authenticate", "validateProjectAccess",
              "validateProjectOwner", "removeProjectMember">>
      [] route = "createTask" ->
            <<"authenticate", "authenticate", "authenticate", "authenticate",
              "authorize", "createTask">>
      [] route = "getTaskById" ->
            <<"authenticate", "authenticate", "authenticate", "authenticate",
              "getTaskById">>
      [] route = "guardedTask" ->
            <<"authenticate", "validateTaskAccess", "getTaskById">>
      [] OTHER -> << >>

ProjectRoutes ==
    {"getProjectById", "updateProject", "deleteProject", "addProjectMember",
     "removeProjectMember"}

\* The middleware or handler the request is in.
At(r) ==
    IF r.stage >= 1 /\ r.stage <= Len(Pipeline(r.route))
    THEN Pipeline(r.route)[r.stage] ELSE ""

InFlight(r) == r.pc \notin {"idle", "done"}

\* The tokens a run may still issue (MaxTokens bounds the run).
MayIssue ==
    Cardinality(issued)
      + Cardinality({c \in Clients : InFlight(reqs[c])
                                     /\ reqs[c].route \in {"register", "login"}})
      < MaxTokens

\* The projects a run may still create (MaxProjects bounds the run).
MayCreate ==
    LET n == Cardinality({p \in Projects : projects[p] # NoDoc})
               + Cardinality({c \in Clients : InFlight(reqs[c])
                                              /\ reqs[c].route = "createProject"})
    IN n < MaxProjects /\ n < Cardinality(Projects)

\* next(): control passes to the following middleware of the chain.
CallNext(r) == [r EXCEPT !.stage = @ + 1, !.pc = "start"]

\* res.status(status).json({ message }): the response ends the request; the
\* body, what the middleware attached and the handler's locals are dropped.
Respond(r, status, message) ==
    [r EXCEPT !.pc = "done", !.status = status, !.message = message,
              !.email = "", !.password = "", !.role = "", !.profession = "",
              !.type = "", !.user = NoUser, !.token = NoTok,
              !.projectDocument = NoDoc, !.userDocument = NoUser,
              !.project = NoDoc, !.hasAccess = FALSE, !.expiresIn = 0,
              !.task = NoTask]

Log(r, op) == [r EXCEPT !.ops = Append(@, op)]

\* What a client can put in the Authorization header: nothing, another scheme,
\* 'Bearer' followed by an empty token, or 'Bearer <token>' with a token it was
\* issued, a refresh token, a token with a foreign signature or a malformed one.
Unsigned ==
    {[scheme |-> "none", tok |-> NoTok], [scheme |-> "basic", tok |-> NoTok],
     [scheme |-> "bearer", tok |-> NoTok], [scheme |-> "bearer", tok |-> Malformed],
     [scheme |-> "bearer", tok |-> Forged("u1")]}

Issued == {[scheme |-> "bearer", tok |-> t] : t \in issued}

Credentials == Unsigned \cup Issued

\* The bodies of POST /auth/register and POST /auth/login that are tried; an
\* empty string is a missing field.
ValidRegistrations ==
    {[email |-> "u1", password |-> "pw", role |-> "manager", profession |-> ""],
     [email |-> "u2", password |-> "pw", role |-> "member", profession |-> "frontend"],
     [email |-> "u2", password |-> "pw", role |-> "admin", profession |-> ""]}

InvalidRegistrations ==
    {[email |-> "u1", password |-> "", role |-> "member", profession |-> ""],
     [email |-> "u1", password |-> "pw", role |-> "guest", profession |-> ""],
     [email |-> "u2", password |-> "pw", role |-> "member", profession |-> "devops"]}

ValidLogins == {[email |-> u, password |-> "pw"] : u \in Users}

InvalidLogins ==
    {[email |-> "u1", password |-> "wrong"], [email |-> "", password |-> "pw"]}

\* ------------------------------------------------------------------- Init
Init ==
    /\ now = 0
    /\ users = [u \in Users |-> "absent"]
    /\ projects = [p \in Projects |-> NoDoc]
    /\ cache = {}
    /\ reqs = [c \in Clients |-> Idle]
    /\ issued = {}
    /\ refreshIssued = {}
    /\ lastRefresh = [u \in Users |-> NoTok]
    /\ loggedOut = {}
    /\ lastCheck = [k \in Projects \X Users |-> "none"]
    /\ added = {}
    /\ removed = {}
    /\ tasks = [t \in Tasks |-> NoTask]
    /\ profiles = [u \in Users |-> NoProfile]
    /\ workers = [w \in Workers |-> Started]

\* --------------------------------------------------------- request arrival
\* A client whose previous request is answered sends the next one.
Arrive(c, r) ==
    /\ ~InFlight(reqs[c])
    /\ reqs' = [reqs EXCEPT ![c] = [r EXCEPT !.stage = 1, !.pc = "start"]]
    /\ UNCHANGED <<now, users, projects, cache, issued, refreshIssued, lastRefresh,
                   loggedOut, lastCheck, added, removed, tasks, profiles, workers>>

\* POST /auth/register and POST /auth/login with a JSON body.
SendRegister(c, bodies) ==
    \E b \in bodies :
        /\ MayIssue
        /\ users[b.email] # "deleted"
        /\ Arrive(c, [Idle EXCEPT !.route = "register", !.email = b.email,
                                  !.password = b.password, !.role = b.role,
                                  !.profession = b.profession])

SendLogin(c, bodies) ==
    \E b \in bodies :
        /\ MayIssue
        /\ Arrive(c, [Idle EXCEPT !.route = "login", !.email = b.email,
                                  !.password = b.password])

\* POST /auth/logout.
SendLogout(c, credentials) ==
    \E cr \in credentials :
        Arrive(c, [Idle EXCEPT !.route = "logout", !.scheme = cr.scheme, !.tok = cr.tok,
                               !.afterLogout = (cr.tok \in loggedOut)])

\* POST /auth/refresh-token with a refresh token in the body.
SendRefresh(c) ==
    \E t \in refreshIssued :
        LET other == {d \in Clients \ {c} :
                        /\ InFlight(reqs[d]) /\ reqs[d].route = "refresh-token"
                        /\ reqs[d].tok = t}
            reg == RedisGet(cache, RefreshKey(t.sub), now).tval = t
        IN /\ ~InFlight(reqs[c])
           /\ reqs' = [d \in Clients |->
                         IF d = c
                         THEN [Idle EXCEPT !.route = "refresh-token", !.tok = t,
                                           !.stage = 1, !.pc = "start",
                                           !.registered = reg, !.overlap = (other # {})]
                         ELSE IF d \in other THEN [reqs[d] EXCEPT !.overlap = TRUE]
                         ELSE reqs[d]]
           /\ UNCHANGED <<now, users, projects, cache, issued, refreshIssued,
                          lastRefresh, loggedOut, lastCheck, added, removed, tasks, profiles, workers>>

\* The routes of the project router.
SendCreateProject(c) ==
    \E cr \in Issued, ty \in {"frontend", ""} :
        /\ MayCreate
        /\ Arrive(c, [Idle EXCEPT !.route = "createProject", !.scheme = cr.scheme,
                                  !.tok = cr.tok, !.type = ty,
                                  !.afterLogout = (cr.tok \in loggedOut)])

SendProjectRequest(c) ==
    \E cr \in Issued, p \in Projects,
       rt \in {"getProjectById", "updateProject", "deleteProject"} :
        Arrive(c, [Idle EXCEPT !.route = rt, !.scheme = cr.scheme,
                               !.tok = cr.tok, !.pid = p,
                               !.afterLogout = (cr.tok \in loggedOut)])

SendMemberRequest(c) ==
    \E cr \in Issued, p \in Projects, u \in Users,
       rt \in {"addProjectMember", "removeProjectMember"} :
        Arrive(c, [Idle EXCEPT !.route = rt, !.scheme = cr.scheme,
                               !.tok = cr.tok, !.pid = p, !.target = u,
                               !.afterLogout = (cr.tok \in loggedOut)])

\* DELETE /:projectId/members/:memberId alone, for one member id.
SendRemoveMember(c) ==
    \E cr \in Issued, p \in Projects, u \in {"u2"} :
        Arrive(c, [Idle EXCEPT !.route = "removeProjectMember", !.scheme = cr.scheme,
                               !.tok = cr.tok, !.pid = p, !.target = u,
                               !.afterLogout = (cr.tok \in loggedOut)])

\* GET /projects.
SendGetProjects(c) ==
    \E cr \in Issued :
        Arrive(c, [Idle EXCEPT !.route = "getProjects", !.scheme = cr.scheme,
                               !.tok = cr.tok,
                               !.afterLogout = (cr.tok \in loggedOut)])

\* GET /:projectId alone.
SendGetProject(c) ==
    \E cr \in Issued, p \in Projects :
        Arrive(c, [Idle EXCEPT !.route = "getProjectById", !.scheme = cr.scheme,
                               !.tok = cr.tok, !.pid = p,
                               !.afterLogout = (cr.tok \in loggedOut)])

SendProject(c) ==
    SendCreateProject(c) \/ SendProjectRequest(c) \/ SendMemberRequest(c)

\* The tasks a run may still create (MaxTasks bounds the run).
MayCreateTask ==
    LET n == Cardinality({t \in Tasks : tasks[t] # NoTask})
               + Cardinality({c \in Clients : InFlight(reqs[c])
                                              /\ reqs[c].route = "createTask"})
    IN n < MaxTasks /\ n < Cardinality(Tasks)

\* The roles the task router lets create a task.
TaskCreators == {"admin", "manager", "member"}

\* The routes of the task router, mounted at /projects/:projectId/tasks:
\* POST / behind authorize(allowedRoles), and GET /:taskId.
SendTask(c, allowLists) ==
    \/ \E cr \in Issued, p \in Projects, u \in {"", "u2"}, al \in allowLists :
          /\ MayCreateTask
          /\ Arrive(c, [Idle EXCEPT !.route = "createTask", !.scheme = cr.scheme,
                                    !.tok = cr.tok, !.pid = p, !.target = u,
                                    !.allowed = al])
    \/ \E cr \in Issued, p \in Projects, t \in Tasks :
          Arrive(c, [Idle EXCEPT !.route = "getTaskById", !.scheme = cr.scheme,
                                 !.tok = cr.tok, !.pid = p, !.tid = t])

\* GET /:taskId through validateTaskAccess.
SendGuardedTask(c) ==
    \E cr \in Issued, p \in Projects, t \in Tasks :
        Arrive(c, [Idle EXCEPT !.route = "guardedTask", !.scheme = cr.scheme,
                               !.tok = cr.tok, !.pid = p, !.tid = t])

\* ------------------------------------------------------------ authenticate
\* Why a presented credential is no good, by the facts alone: its structure,
\* its signature, its expiry, its presence in the blacklist.
FailStage(r, ch, t) ==
    IF r.scheme # "bearer" THEN "header"
    ELSE IF r.tok = NoTok THEN "empty"
    ELSE IF r.tok.kind = "malformed" THEN "malformed"
    ELSE IF r.tok.kind # "access" THEN "signature"
    ELSE IF t >= r.tok.exp THEN "expired"
    ELSE IF RedisGet(ch, BlacklistKey(r.tok), t) # NoEntry THEN "revoked"
    ELSE "none"

\* authenticateVerify with the registry consulted last: jwt.verify first, the
\* blacklist lookup only for a token that verifies.
authenticateVerifyFirst(r, ch, t) ==
    IF r.scheme # "bearer"
    THEN Respond(r, 401, "Authorization header with Bearer token required")
    ELSE IF r.tok = NoTok
    THEN Respond(r, 401, "Authentication token missing")
    ELSE LET r1 == Log(r, "jwt.verify")
             v == JwtVerify(r.tok, t)
         IN IF v = "TokenExpiredError"
            THEN Respond(r1, 401, "Session expired. Please login again")
            ELSE IF v = "JsonWebTokenError"
            THEN Respond(r1, 401, "Invalid authentication token")
            ELSE LET r2 == Log(r1, "redisClient.get blacklist") IN
                 IF RedisGet(ch, BlacklistKey(r.tok), t) # NoEntry
                 THEN Respond(r2, 401, "Session expired. Please login again")
                 ELSE r2

\* authenticateVerify with one answer for every token it refuses.
authenticateVerifyGeneric(r, ch, t) ==
    IF r.scheme # "bearer"
    THEN Respond(r, 401, "Authorization header with Bearer token required")
    ELSE IF r.tok = NoTok
    THEN Respond(r, 401, "Authentication token missing")
    ELSE LET r1 == Log(r, "redisClient.get blacklist") IN
         IF RedisGet(ch, BlacklistKey(r.tok), t) # NoEntry
         THEN Respond(r1, 401, "Invalid authentication token")
         ELSE LET r2 == Log(r1, "jwt.verify") IN
              IF JwtVerify(r.tok, t) # "ok"
              THEN Respond(r2, 401, "Invalid authentication token")
              ELSE r2

\* authenticateVerify with the blacklist kept in the memory of the process
\* that handled the logout.
authenticateVerifyInProcess(r, ch, t) ==
    IF r.scheme # "bearer"
    THEN Respond(r, 401, "Authorization header with Bearer token required")
    ELSE IF r.tok = NoTok
    THEN Respond(r, 401, "Authentication token missing")
    ELSE LET r1 == Log(r, "redisClient.get blacklist") IN
         IF r.worker \in Workers /\ r.tok \in workers[r.worker].handled
         THEN Respond(r1, 401, "Session expired. Please login again")
         ELSE LET r2 == Log(r1, "jwt.verify")
                  v == JwtVerify(r.tok, t)
              IN IF v = "TokenExpiredError"
                 THEN Respond(r2, 401, "Session expired. Please login again")
                 ELSE IF v = "JsonWebTokenError"
                 THEN Respond(r2, 401, "Invalid authentication token")
                 ELSE r2

\* authenticate, up to the User.findById it awaits: the header, the token,
\* the blacklist lookup, then jwt.verify and the catch block's answers.
authenticateVerify(r, ch, t) ==
    IF r.scheme # "bearer"
    THEN Respond(r, 401, "Authorization header with Bearer token required")
    ELSE IF r.tok = NoTok
    THEN Respond(r, 401, "Authentication token missing")
    ELSE LET r1 == Log(r, "redisClient.get blacklist") IN
         IF RedisGet(ch, BlacklistKey(r.tok), t) # NoEntry
         THEN Respond(r1, 401, "Session expired. Please login again")
         ELSE LET r2 == Log(r1, "jwt.verify")
                  v == JwtVerify(r.tok, t)
              IN IF v = "TokenExpiredError"
                 THEN Respond(r2, 401, "Session expired. Please login again")
                 ELSE IF v = "JsonWebTokenError"
                 THEN Respond(r2, 401, "Invalid authentication token")
                 ELSE r2

\* User.findById(id): the whole document, or NoUser for null.
UserFindById(us, pf, id) ==
    IF us[id] \notin Roles THEN NoUser
    ELSE [id |-> id, role |-> us[id], password |-> pf[id].password,
          professionRoleType |-> pf[id].professionRoleType]

\* .select('-password -__v -refreshToken'): the document without these paths.
Select(doc, excluded) == [f \in DOMAIN doc \ excluded |-> doc[f]]

\* The IUserResponse authenticate builds from the lean document; an empty
\* profession stands for the absent professionRoleType.
userResponse(user) ==
    [id |-> user.id, role |-> user.role, profession |-> user.professionRoleType]

\* authenticateUser without the look at the account: the token's own role.
authenticateUserUnchecked(r, us, pf) ==
    CallNext([Log(r, "User.findById") EXCEPT
                  !.user = [id |-> r.tok.sub, role |-> r.tok.role, profession |-> ""],
                  !.token = r.tok, !.authNext = @ + 1])

\* authenticateUser that attaches the document as the datastore holds it.
authenticateUserWhole(r, us, pf) ==
    LET r1 == Log(r, "User.findById")
        user == UserFindById(us, pf, r.tok.sub)
    IN IF user = NoUser
       THEN Respond(r1, 401, "User account not found")
       ELSE CallNext([r1 EXCEPT !.user = user, !.token = r.tok, !.authNext = @ + 1])

\* authenticateUser that attaches the role of the decoded token.
authenticateUserDecoded(r, us, pf) ==
    LET r1 == Log(r, "User.findById")
        user == UserFindById(us, pf, r.tok.sub)
    IN IF user = NoUser
       THEN Respond(r1, 401, "User account not found")
       ELSE CallNext([r1 EXCEPT
                          !.user = [userResponse(Select(user, {"password"}))
                                        EXCEPT !.role = r.tok.role],
                          !.token = r.tok,
                          !.authNext = @ + 1])

\* authenticate, from the result of User.findById(decoded._id) on: the role
\* attached to the request is the one the datastore holds.
authenticateUser(r, us, pf) ==
    LET r1 == Log(r, "User.findById")
        user == UserFindById(us, pf, r.tok.sub)
    IN IF user = NoUser
       THEN Respond(r1, 401, "User account not found")
       ELSE CallNext([r1 EXCEPT
                          !.user = userResponse(Select(user, {"password"})),
                          !.token = r.tok,
                          !.authNext = @ + 1])

authenticate(c) ==
    LET r == reqs[c]
        v == authenticateVerify(r, cache, now)
        stage == FailStage(r, cache, now)
    IN /\ At(r) = "authenticate" /\ r.pc = "start"
       /\ reqs' = [reqs EXCEPT ![c] =
                     IF v.pc = "done"
                     THEN [v EXCEPT !.failStage = stage]
                     ELSE LET q == authenticateUser(v, users, profiles) IN
                          IF q.pc = "done" THEN [q EXCEPT !.failStage = "subject"]
                          ELSE q]
       /\ UNCHANGED <<now, users, projects, cache, issued, refreshIssued, lastRefresh,
                      loggedOut, lastCheck, added, removed, tasks, profiles, workers>>

\* authenticateRejected that takes a failed lookup for "not blacklisted".
authenticateRejectedOpen(r, us, pf, t) ==
    LET r1 == Log(r, "redisClient.get blacklist")
        r2 == Log(r1, "jwt.verify")
        v == JwtVerify(r.tok, t)
    IN IF v = "TokenExpiredError"
       THEN Respond(r2, 401, "Session expired. Please login again")
       ELSE IF v = "JsonWebTokenError"
       THEN Respond(r2, 401, "Invalid authentication token")
       ELSE authenticateUser(r2, us, pf)

\* authenticate when redisClient.get('blacklist:<token>') rejects: the error
\* is neither a TokenExpiredError nor a JsonWebTokenError, and the catch
\* block answers 500.
authenticateRejected(r, us, pf, t) ==
    Respond(Log(r, "redisClient.get blacklist"), 500, "Authentication failed")

\* The Redis server cannot be reached while authenticate looks the token up.
authenticateUnreachable(c) ==
    LET r == reqs[c]
        q == authenticateRejected(r, users, profiles, now)
    IN /\ At(r) = "authenticate" /\ r.pc = "start"
       /\ r.scheme = "bearer" /\ r.tok # NoTok
       /\ reqs' = [reqs EXCEPT ![c] =
                     [q EXCEPT !.outage = TRUE,
                               !.failStage = IF q.pc = "done" THEN "cache" ELSE @]]
       /\ UNCHANGED <<now, users, projects, cache, issued, refreshIssued, lastRefresh,
                      loggedOut, lastCheck, added, removed, tasks, profiles, workers>>

\* authenticateUserRejected that reports the failed read as a missing account.
authenticateUserRejectedAsMissing(r, us, pf) ==
    Respond(Log(r, "User.findById"), 401, "User account not found")

\* authenticate when User.findById rejects: the catch block answers 500.
authenticateUserRejected(r, us, pf) ==
    Respond(Log(r, "User.findById"), 500, "Authentication failed")

\* The datastore cannot be reached while authenticate reads the account of
\* a token that has passed the lookup and jwt.verify.
authenticateDatastoreUnreachable(c) ==
    LET r == reqs[c]
        v == authenticateVerify(r, cache, now)
        q == authenticateUserRejected(v, users, profiles)
    IN /\ At(r) = "authenticate" /\ r.pc = "start"
       /\ v.pc # "done"
       /\ reqs' = [reqs EXCEPT ![c] = [q EXCEPT !.outage = TRUE,
                                                !.failStage = "datastore"]]
       /\ UNCHANGED <<now, users, projects, cache, issued, refreshIssued, lastRefresh,
                      loggedOut, lastCheck, added, removed, tasks, profiles, workers>>

\* --------------------------------------------------------- auth controller
\* generateAuthTokens with the record stored under the token, not the subject.
generateAuthTokensPerToken(u, role, ch, t) ==
    LET refreshToken == SignRefresh(u, t) IN
    [accessToken |-> SignAccess(u, role, t),
     refreshToken |-> refreshToken,
     cache |-> RedisSet(ch, Key("refresh", "", "", u, refreshToken), "", refreshToken,
                        RefreshRecordTTL, t)]

\* generateAuthTokens: both tokens are signed at the clock's second, and the
\* refresh token is stored under refresh:<userId> by one SET with EX.
generateAuthTokens(u, role, ch, t) ==
    LET refreshToken == SignRefresh(u, t) IN
    [accessToken |-> SignAccess(u, role, t),
     refreshToken |-> refreshToken,
     cache |-> RedisSet(ch, RefreshKey(u), "", refreshToken, RefreshRecordTTL, t)]

\* register: the body's checks, User.findOne({ email }), user.save(),
\* generateAuthTokens, the user:<id> cache entry, 201.
registerOutcome(r, us) ==
    IF r.email = "" \/ r.password = ""
    THEN Respond(r, 400, "Username, email and password are required")
    ELSE IF r.role \notin Roles
    THEN Respond(r, 400, "Invalid user role")
    ELSE IF r.role = "member" /\ r.profession # ""
            /\ r.profession \notin {"frontend", "backend", "ui/ux"}
    THEN Respond(r, 400, "Invalid profession type")
    ELSE IF us[r.email] # "absent"
    THEN Respond(r, 409, "User already exists")
    ELSE Respond(r, 201, "")

register(c) ==
    LET r == reqs[c]
        q == registerOutcome(r, users)
        g == generateAuthTokens(r.email, r.role, cache, now)
    IN /\ At(r) = "register" /\ r.pc = "start"
       /\ reqs' = [reqs EXCEPT ![c] = q]
       /\ IF q.status = 201
          THEN /\ users' = [users EXCEPT ![r.email] = r.role]
               /\ profiles' = [profiles EXCEPT ![r.email] =
                                 [password |-> BcryptHash(r.password),
                                  professionRoleType |->
                                      IF r.role = "member" THEN r.profession ELSE ""]]
               /\ cache' = RedisSet(g.cache, UserKey(r.email), r.role, NoTok,
                                    UserCacheTTL, now)
               /\ issued' = issued \cup {g.accessToken}
               /\ refreshIssued' = refreshIssued \cup {g.refreshToken}
               /\ lastRefresh' = [lastRefresh EXCEPT ![r.email] = g.refreshToken]
          ELSE UNCHANGED <<users, profiles, cache, issued, refreshIssued, lastRefresh>>
       /\ UNCHANGED <<now, projects, loggedOut, lastCheck, added, removed, tasks, workers>>

\* loginOutcome without bcrypt.compare: any password of a known e-mail passes.
loginOutcomeAnyPassword(r, us, pf) ==
    IF r.email = "" \/ r.password = ""
    THEN Respond(r, 400, "Email and password are required")
    ELSE IF us[r.email] \notin Roles
    THEN Respond(r, 401, "Invalid credentials")
    ELSE Respond(r, 200, "")

\* login: the body's checks, User.findOne({ email }), bcrypt.compare,
\* generateAuthTokens, the user:<id> cache entry, 200.
loginOutcome(r, us, pf) ==
    IF r.email = "" \/ r.password = ""
    THEN Respond(r, 400, "Email and password are required")
    ELSE IF us[r.email] \notin Roles
    THEN Respond(r, 401, "Invalid credentials")
    ELSE IF pf[r.email].password # BcryptHash(r.password)
    THEN Respond(r, 401, "Invalid credentials")
    ELSE Respond(r, 200, "")

login(c) ==
    LET r == reqs[c]
        q == loginOutcome(r, users, profiles)
        g == generateAuthTokens(r.email, users[r.email], cache, now)
    IN /\ At(r) = "login" /\ r.pc = "start"
       /\ reqs' = [reqs EXCEPT ![c] = q]
       /\ IF q.status = 200
          THEN /\ cache' = RedisSet(g.cache, UserKey(r.email), users[r.email], NoTok,
                                    UserCacheTTL, now)
               /\ issued' = issued \cup {g.accessToken}
               /\ refreshIssued' = refreshIssued \cup {g.refreshToken}
               /\ lastRefresh' = [lastRefresh EXCEPT ![r.email] = g.refreshToken]
          ELSE UNCHANGED <<cache, issued, refreshIssued, lastRefresh>>
       /\ UNCHANGED <<now, users, projects, loggedOut, lastCheck, added, removed, tasks, profiles, workers>>

\* logoutExpiresIn as the token's whole lifetime, whatever has elapsed of it.
logoutExpiresInWhole(tok, t) == tok.exp - tok.iat

\* logout, first await: expiresIn = decoded.exp - Math.floor(Date.now() / 1000)
\* and, when it is positive, SET blacklist:<token> 'logged out' EX expiresIn.
logoutExpiresIn(tok, t) == tok.exp - t

\* logoutBlacklist with an expiry of five minutes whatever the token has left.
logoutBlacklistBrief(r, ch, t) ==
    IF logoutExpiresIn(r.token, t) > 0
    THEN RedisSet(ch, BlacklistKey(r.token), "logged out", NoTok, 300, t)
    ELSE ch

logoutBlacklist(r, ch, t) ==
    LET expiresIn == logoutExpiresIn(r.token, t) IN
    IF expiresIn > 0
    THEN RedisSet(ch, BlacklistKey(r.token), "logged out", NoTok, expiresIn, t)
    ELSE ch

logout(c) ==
    LET r == reqs[c] IN
    /\ At(r) = "logout" /\ r.pc = "start"
    /\ IF r.token = NoTok \/ r.user = NoUser
       THEN /\ reqs' = [reqs EXCEPT ![c] = Respond(r, 401, "Not authenticated")]
            /\ UNCHANGED cache
       ELSE /\ reqs' = [reqs EXCEPT ![c] =
                          [r EXCEPT !.pc = "delete",
                                    !.expiresIn = logoutExpiresIn(r.token, now)]]
            /\ cache' = logoutBlacklist(r, cache, now)
    /\ UNCHANGED <<now, users, projects, issued, refreshIssued, lastRefresh,
                   loggedOut, lastCheck, added, removed, tasks, profiles, workers>>

\* logout, second await: DEL refresh:<userId> and DEL user:<userId>, then 200.
logoutDelete(c) ==
    LET r == reqs[c] IN
    /\ At(r) = "logout" /\ r.pc = "delete"
    /\ cache' = RedisDel(RedisDel(cache, RefreshKey(r.user.id)), UserKey(r.user.id))
    /\ reqs' = [reqs EXCEPT ![c] = Respond(r, 200, "Logged out successfully")]
    /\ loggedOut' = loggedOut \cup {r.token}
    /\ workers' = IF r.worker \in Workers
                  THEN [workers EXCEPT ![r.worker].handled = @ \cup {r.token}]
                  ELSE workers
    /\ UNCHANGED <<now, users, projects, issued, refreshIssued, lastRefresh,
                   lastCheck, added, removed, tasks, profiles>>

\* POST /auth/refresh-token: the route is commented out of the auth router, so
\* the request falls through every router to notFoundHandler.
notFoundHandler(c) ==
    LET r == reqs[c] IN
    /\ At(r) = "notFoundHandler" /\ r.pc = "start"
    /\ reqs' = [reqs EXCEPT ![c] = Respond(r, 404, "Route not found")]
    /\ UNCHANGED <<now, users, projects, cache, issued, refreshIssued, lastRefresh,
                   loggedOut, lastCheck, added, removed, tasks, profiles, workers>>


\* ------------------------------------------------------ project middleware
\* validateProjectCreation: only admins and managers pass.
validateProjectCreationOutcome(r) ==
    IF r.user = NoUser \/ (r.user.role # "admin" /\ r.user.role # "manager")
    THEN Respond(r, 403, "Only admins and managers can create projects")
    ELSE CallNext(r)

validateProjectCreation(c) ==
    LET r == reqs[c] IN
    /\ At(r) = "validateProjectCreation" /\ r.pc = "start"
    /\ reqs' = [reqs EXCEPT ![c] = validateProjectCreationOutcome(r)]
    /\ UNCHANGED <<now, users, projects, cache, issued, refreshIssued, lastRefresh,
                   loggedOut, lastCheck, added, removed, tasks, profiles, workers>>

\* validateProjectType: the body's type is one of the three project types.
validateProjectType(c) ==
    LET r == reqs[c] IN
    /\ At(r) = "validateProjectType" /\ r.pc = "start"
    /\ reqs' = [reqs EXCEPT ![c] =
                  IF r.type = "" \/ r.type \notin {"frontend", "backend", "ui/ux"}
                  THEN Respond(r, 400, "Invalid project type. Must be one of: frontend, backend, ui/ux")
                  ELSE CallNext(r)]
    /\ UNCHANGED <<now, users, projects, cache, issued, refreshIssued, lastRefresh,
                   loggedOut, lastCheck, added, removed, tasks, profiles, workers>>

\* validateProjectAccess, first await: the cached decision, if any.  A cached
\* 'true' calls next at once, and req.projectDocument stays unset.
validateProjectAccessCached(r, ch, t) ==
    LET cachedAccess == RedisGet(ch, ProjectUserKey(r.pid, r.user.id), t).sval
        r1 == Log(r, "redisClient.get project")
    IN IF cachedAccess = "true"
       THEN CallNext([r1 EXCEPT !.chk.dec = "allow"])
       ELSE IF cachedAccess = "false"
       THEN Respond([r1 EXCEPT !.chk.dec = "deny"], 403, "Access denied to project")
       ELSE [r1 EXCEPT !.pc = "findProject"]

\* hasAccess = project.members.includes(new ObjectId(userId)).
hasProjectAccess(project, userId) == userId \in project.members

\* validateProjectAccess, second await: Project.findById(projectId).
validateProjectAccessFind(r, ps) ==
    LET project == ProjectFindById(ps, r.pid)
        r1 == [Log(r, "Project.findById") EXCEPT !.chk.reads = @ + 1]
    IN IF project = NoDoc
       THEN Respond([r1 EXCEPT !.chk.dec = "notfound"], 404, "Project not found")
       ELSE [r1 EXCEPT !.pc = "setAccess", !.project = project,
                       !.hasAccess = hasProjectAccess(project, r.user.id)]

\* validateProjectAccessStore that keeps allow only.
validateProjectAccessStoreAllow(r, ch, t) ==
    IF r.hasAccess
    THEN RedisSet(ch, ProjectUserKey(r.pid, r.user.id), "true", NoTok, ProjectAccessTTL, t)
    ELSE ch

\* validateProjectAccessStore that takes an entry already there for a claim
\* on the key and stores a refusal over it.
validateProjectAccessStoreClaimed(r, ch, t) ==
    RedisSet(ch, ProjectUserKey(r.pid, r.user.id),
             IF r.hasAccess /\ RedisGet(ch, ProjectUserKey(r.pid, r.user.id), t) = NoEntry
             THEN "true" ELSE "false",
             NoTok, ProjectAccessTTL, t)

\* validateProjectAccess, third await: SET project:<id>:user:<userId> EX 3600.
validateProjectAccessStore(r, ch, t) ==
    RedisSet(ch, ProjectUserKey(r.pid, r.user.id),
             IF r.hasAccess THEN "true" ELSE "false", NoTok, ProjectAccessTTL, t)

validateProjectAccessDecide(r) ==
    LET r1 == Log(r, "redisClient.set project") IN
    IF ~r.hasAccess
    THEN Respond([r1 EXCEPT !.chk.dec = "deny"], 403, "Access denied to project")
    ELSE CallNext([r1 EXCEPT !.chk.dec = "allow", !.projectDocument = r.project,
                             !.project = NoDoc, !.hasAccess = FALSE])

\* A check that has returned allow or deny is the last completed one for its
\* (project, subject).
Checked(lc, q) ==
    IF q.chk.dec \in {"allow", "deny"}
    THEN [lc EXCEPT ![<<q.pid, q.tok.sub>>] = q.chk.dec]
    ELSE lc

validateProjectAccess(c) ==
    LET r == reqs[c]
        k == <<r.pid, r.user.id>>
        r0 == [r EXCEPT !.chk.prev = lastCheck[k],
                        !.afterAdd = (k \in added),
                        !.afterRemove = (k \in removed)]
        q == validateProjectAccessCached(r0, cache, now)
    IN /\ At(r) = "validateProjectAccess" /\ r.pc = "start"
       /\ reqs' = [reqs EXCEPT ![c] = q]
       /\ cache' = RedisAfterGet(cache, ProjectUserKey(r.pid, r.user.id),
                                 ProjectAccessTTL, now)
       /\ lastCheck' = Checked(lastCheck, q)
       /\ UNCHANGED <<now, users, projects, issued, refreshIssued, lastRefresh,
                      loggedOut, added, removed, tasks, profiles, workers>>

validateProjectAccessFindProject(c) ==
    LET r == reqs[c] IN
    /\ At(r) = "validateProjectAccess" /\ r.pc = "findProject"
    /\ reqs' = [reqs EXCEPT ![c] = validateProjectAccessFind(r, projects)]
    /\ UNCHANGED <<now, users, projects, cache, issued, refreshIssued, lastRefresh,
                   loggedOut, lastCheck, added, removed, tasks, profiles, workers>>

validateProjectAccessSet(c) ==
    LET r == reqs[c]
        q == validateProjectAccessDecide(r)
    IN /\ At(r) = "validateProjectAccess" /\ r.pc = "setAccess"
       /\ cache' = validateProjectAccessStore(r, cache, now)
       /\ reqs' = [reqs EXCEPT ![c] = q]
       /\ lastCheck' = Checked(lastCheck, q)
       /\ UNCHANGED <<now, users, projects, issued, refreshIssued, lastRefresh,
                      loggedOut, added, removed, tasks, profiles, workers>>

\* validateProjectAccess when redisClient.get or redisClient.set rejects:
\* the catch block answers 500 and no decision is made.
validateProjectAccessRejected(r, ps) ==
    Respond(Log(r, IF r.pc = "start" THEN "redisClient.get project"
                   ELSE "redisClient.set project"),
            500, "Error validating project access")

\* The Redis server cannot be reached at the check's GET or at its SET.
validateProjectAccessUnreachable(c) ==
    LET r == reqs[c]
        q == validateProjectAccessRejected(r, projects)
    IN /\ At(r) = "validateProjectAccess" /\ r.pc \in {"start", "setAccess"}
       /\ reqs' = [reqs EXCEPT ![c] = [q EXCEPT !.outage = TRUE]]
       /\ lastCheck' = Checked(lastCheck, q)
       /\ UNCHANGED <<now, users, projects, cache, issued, refreshIssued, lastRefresh,
                      loggedOut, added, removed, tasks, profiles, workers>>

\* validateProjectOwner that trusts the access decision and reads nothing.
validateProjectOwnerTrusting(r, ps) == CallNext(r)

\* validateProjectOwner: Project.findById, then createdBy against the requester.
validateProjectOwnerOutcome(r, ps) ==
    LET project == ProjectFindById(ps, r.pid)
        r1 == Log(r, "Project.findById")
    IN IF project = NoDoc
       THEN Respond(r1, 404, "Project not found")
       ELSE IF project.createdBy # r.user.id
       THEN Respond(r1, 403, "Only project owner can perform this action")
       ELSE CallNext([r1 EXCEPT !.projectDocument = project])

validateProjectOwner(c) ==
    LET r == reqs[c] IN
    /\ At(r) = "validateProjectOwner" /\ r.pc = "start"
    /\ reqs' = [reqs EXCEPT ![c] = validateProjectOwnerOutcome(r, projects)]
    /\ UNCHANGED <<now, users, projects, cache, issued, refreshIssued, lastRefresh,
                   loggedOut, lastCheck, added, removed, tasks, profiles, workers>>

\* validateProjectOwnerRejected whose catch block logs the error and sends
\* nothing.
validateProjectOwnerRejectedSilent(r, ps) == Log(r, "Project.findById")

\* validateProjectOwner when Project.findById rejects: the catch block
\* answers 500.
validateProjectOwnerRejected(r, ps) ==
    Respond(Log(r, "Project.findById"), 500, "Error validating project ownership")

\* The datastore cannot be reached at the owner check's findById.
validateProjectOwnerUnreachable(c) ==
    LET r == reqs[c] IN
    /\ At(r) = "validateProjectOwner" /\ r.pc = "start"
    /\ reqs' = [reqs EXCEPT ![c] =
                  [validateProjectOwnerRejected(r, projects) EXCEPT !.outage = TRUE]]
    /\ UNCHANGED <<now, users, projects, cache, issued, refreshIssued, lastRefresh,
                   loggedOut, lastCheck, added, removed, tasks, profiles, workers>>

\* validateProjectMember: the user to add exists with role member, the
\* requester is the owner or an admin, the user is not a member yet.  It
\* attaches req.projectDocument and req.userDocument.
validateProjectMemberOutcome(r, us, ps) ==
    LET project == ProjectFindById(ps, r.pid)
        r1 == Log(Log(r, "User.findById"), "Project.findById")
    IN IF us[r.target] # "member"
       THEN Respond(Log(r, "User.findById"), 400,
                    "Invalid user. Only members can be added to projects")
       ELSE IF project = NoDoc
       THEN Respond(r1, 404, "Project not found")
       ELSE IF project.createdBy # r.user.id /\ r.user.role # "admin"
       THEN Respond(r1, 403, "Only project owner or admin can add members")
       ELSE IF r.target \in project.members
       THEN Respond(r1, 400, "User is already a project member")
       ELSE CallNext([r1 EXCEPT !.projectDocument = project,
                                !.userDocument = [id |-> r.target, role |-> us[r.target]]])

validateProjectMember(c) ==
    LET r == reqs[c] IN
    /\ At(r) = "validateProjectMember" /\ r.pc = "start"
    /\ reqs' = [reqs EXCEPT ![c] = validateProjectMemberOutcome(r, users, projects)]
    /\ UNCHANGED <<now, users, projects, cache, issued, refreshIssued, lastRefresh,
                   loggedOut, lastCheck, added, removed, tasks, profiles, workers>>


\* ------------------------------------------------------ project controller
\* A datastore write to a project, or the loss of a cached decision, ends the
\* run of checks "with no intervening mutation" for the keys it touches.
Forget(rs, K) ==
    [c \in Clients |->
        IF InFlight(rs[c]) /\ At(rs[c]) = "validateProjectAccess"
           /\ <<rs[c].pid, rs[c].user.id>> \in K
        THEN [rs[c] EXCEPT !.chk.prev = "none"]
        ELSE rs[c]]

Forgotten(lc, K) == [k \in Projects \X Users |-> IF k \in K THEN "none" ELSE lc[k]]

KeysOf(p) == {p} \X Users

\* createProject: the new document has the requester as owner and as only
\* member; then DEL 'projects:*' and 201.
createProject(c) ==
    LET r == reqs[c]
        p == CHOOSE p \in Projects : projects[p] = NoDoc
    IN /\ At(r) = "createProject" /\ r.pc = "start"
       /\ projects' = [projects EXCEPT ![p] =
                         [id |-> p, createdBy |-> r.user.id, members |-> {r.user.id}]]
       /\ cache' = RedisDel(cache, ProjectsStarKey)
       /\ reqs' = [Forget(reqs, KeysOf(p)) EXCEPT ![c] =
                     Respond([r EXCEPT !.pid = p], 201, "")]
       /\ lastCheck' = Forgotten(lastCheck, KeysOf(p))
       /\ UNCHANGED <<now, users, issued, refreshIssued, lastRefresh, loggedOut,
                      added, removed, tasks, profiles, workers>>

\* JSON.stringify of a list of projects and JSON.parse of the string, a list
\* being known by the ids of its projects.
JSONStringify(ids) ==
    CASE ids = {} -> "[]"
      [] ids = {"p1"} -> "[p1]"
      [] ids = {"p2"} -> "[p2]"
      [] OTHER -> "[p1,p2]"

JSONParse(str) == CHOOSE ids \in SUBSET Projects : JSONStringify(ids) = str

\* Project.find(query): a member's projects are those it is a member of, a
\* manager's those it created or is a member of, an admin's all of them.
ProjectFind(ps, user) ==
    {p \in Projects :
        LET project == ProjectFindById(ps, p) IN
        /\ project # NoDoc
        /\ CASE user.role = "member" -> user.id \in project.members
              [] user.role = "manager" ->
                    project.createdBy = user.id \/ user.id \in project.members
              [] OTHER -> TRUE}

\* getProjects, first await: the list cached under projects:user:<userId>,
\* returned as it is when there is one.
getProjectsCached(r, ch, t) ==
    LET cachedProjects == RedisGet(ch, ProjectsUserKey(r.user.id), t)
        r1 == Log(r, "redisClient.get projects")
    IN IF cachedProjects # NoEntry
       THEN [Respond(r1, 200, "") EXCEPT !.data = JSONParse(cachedProjects.sval)]
       ELSE [r1 EXCEPT !.pc = "find"]

getProjects(c) ==
    LET r == reqs[c] IN
    /\ At(r) = "getProjects" /\ r.pc = "start"
    /\ reqs' = [reqs EXCEPT ![c] = getProjectsCached(r, cache, now)]
    /\ UNCHANGED <<now, users, projects, cache, issued, refreshIssued, lastRefresh,
                   loggedOut, lastCheck, added, removed, tasks, profiles, workers>>

\* getProjects, second await: Project.find(query).
getProjectsFind(c) ==
    LET r == reqs[c] IN
    /\ At(r) = "getProjects" /\ r.pc = "find"
    /\ reqs' = [reqs EXCEPT ![c] =
                  [Log(r, "Project.find") EXCEPT !.pc = "set",
                                                 !.data = ProjectFind(projects, r.user)]]
    /\ UNCHANGED <<now, users, projects, cache, issued, refreshIssued, lastRefresh,
                   loggedOut, lastCheck, added, removed, tasks, profiles, workers>>

\* getProjects, third await: SET projects:user:<userId> EX 3600, then 200
\* with the list.
getProjectsSet(c) ==
    LET r == reqs[c] IN
    /\ At(r) = "getProjects" /\ r.pc = "set"
    /\ cache' = RedisSet(cache, ProjectsUserKey(r.user.id), JSONStringify(r.data),
                         NoTok, ProjectListTTL, now)
    /\ reqs' = [reqs EXCEPT ![c] =
                  [Respond(Log(r, "redisClient.set projects"), 200, "")
                      EXCEPT !.data = r.data]]
    /\ UNCHANGED <<now, users, projects, issued, refreshIssued, lastRefresh,
                   loggedOut, lastCheck, added, removed, tasks, profiles, workers>>

\* getProjectById: answers from req.projectDocument.
getProjectByIdOutcome(r) ==
    IF r.projectDocument = NoDoc
    THEN Respond(r, 404, "Project not found")
    ELSE Respond(Log(r, "project.populate"), 200, "")

getProjectById(c) ==
    LET r == reqs[c] IN
    /\ At(r) = "getProjectById" /\ r.pc = "start"
    /\ reqs' = [reqs EXCEPT ![c] = getProjectByIdOutcome(r)]
    /\ UNCHANGED <<now, users, projects, cache, issued, refreshIssued, lastRefresh,
                   loggedOut, lastCheck, added, removed, tasks, profiles, workers>>

\* updateProject and deleteProject, the two DELs they await after the write:
\* projects:user:<requester> and project:<id>:*.
projectDeletes(r, ch) ==
    RedisDel(RedisDel(ch, ProjectsUserKey(r.user.id)), ProjectStarKey(r.pid))

\* updateProject, first await: name, description, type and status are set on
\* req.projectDocument, and project.save() writes them (members are not).
updateProject(c) ==
    LET r == reqs[c] IN
    /\ At(r) = "updateProject" /\ r.pc = "start"
    /\ reqs' = [reqs EXCEPT ![c] =
                  IF r.projectDocument = NoDoc
                  THEN Respond(r, 404, "Project not found")
                  ELSE IF ProjectFindById(projects, r.pid) = NoDoc
                  THEN Respond(Log(r, "project.save"), 500, "Failed to update project")
                  ELSE [Log(r, "project.save") EXCEPT !.pc = "invalidate"]]
    /\ UNCHANGED <<now, users, projects, cache, issued, refreshIssued, lastRefresh,
                   loggedOut, lastCheck, added, removed, tasks, profiles, workers>>

\* deleteProject, first await: project.deleteOne().
deleteProject(c) ==
    LET r == reqs[c] IN
    /\ At(r) = "deleteProject" /\ r.pc = "start"
    /\ IF r.projectDocument = NoDoc
       THEN /\ reqs' = [reqs EXCEPT ![c] = Respond(r, 404, "Project not found")]
            /\ UNCHANGED <<projects, lastCheck>>
       ELSE /\ projects' = [projects EXCEPT ![r.pid] = Gone]
            /\ reqs' = [Forget(reqs, KeysOf(r.pid)) EXCEPT ![c] =
                          [Log(r, "project.deleteOne") EXCEPT !.pc = "invalidate"]]
            /\ lastCheck' = Forgotten(lastCheck, KeysOf(r.pid))
    /\ UNCHANGED <<now, users, cache, issued, refreshIssued, lastRefresh, loggedOut,
                   added, removed, tasks, profiles, workers>>

\* updateProject and deleteProject, the DELs and the answer.
projectInvalidate(c) ==
    LET r == reqs[c]
        ch2 == projectDeletes(r, cache)
        K == {k \in Projects \X Users :
                /\ RedisGet(cache, ProjectUserKey(k[1], k[2]), now) # NoEntry
                /\ RedisGet(ch2, ProjectUserKey(k[1], k[2]), now) = NoEntry}
    IN /\ At(r) \in {"updateProject", "deleteProject"} /\ r.pc = "invalidate"
       /\ cache' = ch2
       /\ reqs' = [Forget(reqs, K) EXCEPT ![c] =
                     Respond(Log(r, "redisClient.del"), 200,
                             IF At(r) = "deleteProject"
                             THEN "Project deleted successfully" ELSE "")]
       /\ lastCheck' = Forgotten(lastCheck, K)
       /\ UNCHANGED <<now, users, projects, issued, refreshIssued, lastRefresh,
                      loggedOut, added, removed, tasks, profiles, workers>>

\* addProjectMember reads req.projectDocument and req.userToAdd; without
\* either it answers 400.  Otherwise it pushes the user, saves, deletes
\* projects:user:<requester>, project:<id>:* and projects:user:<added>.
addProjectMemberAccepts(r) == r.projectDocument # NoDoc /\ r.userToAdd # NoUser

addProjectMember(c) ==
    LET r == reqs[c]
        k == <<r.pid, r.target>>
        deny == RedisGet(cache, ProjectUserKey(r.pid, r.target), now).sval = "false"
    IN /\ At(r) = "addProjectMember" /\ r.pc = "start"
       /\ IF ~addProjectMemberAccepts(r)
          THEN /\ reqs' = [reqs EXCEPT ![c] = Respond(r, 400, "Invalid project or user")]
               /\ UNCHANGED <<projects, cache, lastCheck, removed>>
          ELSE /\ projects' = [projects EXCEPT ![r.pid].members = @ \cup {r.userToAdd.id}]
               /\ cache' = RedisDel(RedisDel(RedisDel(cache,
                                ProjectsUserKey(r.user.id)),
                                ProjectStarKey(r.pid)),
                                ProjectsUserKey(r.userToAdd.id))
               /\ reqs' = [Forget(reqs, KeysOf(r.pid)) EXCEPT ![c] =
                             Respond(Log(Log(r, "project.save"), "redisClient.del"),
                                     200, "Member added successfully")]
               /\ lastCheck' = Forgotten(lastCheck, KeysOf(r.pid))
               /\ removed' = removed \ {k}
       /\ added' = IF deny THEN added \cup {k} ELSE added
       /\ UNCHANGED <<now, users, issued, refreshIssued, lastRefresh, loggedOut, tasks, profiles, workers>>

\* removeProjectMember, first await: project.members without memberId, saved.
removeProjectMemberFilter(project, memberId) ==
    [project EXCEPT !.members = @ \ {memberId}]

removeProjectMember(c) ==
    LET r == reqs[c]
        allow == RedisGet(cache, ProjectUserKey(r.pid, r.target), now).sval = "true"
    IN /\ At(r) = "removeProjectMember" /\ r.pc = "start"
       /\ IF r.projectDocument = NoDoc
          THEN /\ reqs' = [reqs EXCEPT ![c] = Respond(r, 404, "Project not found")]
               /\ UNCHANGED <<projects, lastCheck>>
          ELSE /\ projects' = [projects EXCEPT ![r.pid] =
                                 removeProjectMemberFilter(r.projectDocument, r.target)]
               /\ reqs' = [Forget(reqs, KeysOf(r.pid)) EXCEPT ![c] =
                             [Log(r, "project.save") EXCEPT !.pc = "invalidate",
                                                            !.hadCached = allow]]
               /\ lastCheck' = Forgotten(lastCheck, KeysOf(r.pid))
       /\ UNCHANGED <<now, users, cache, issued, refreshIssued, lastRefresh, loggedOut,
                      added, removed, tasks, profiles, workers>>

\* removeProjectMember, the three DELs it awaits next: projects:user:<requester>,
\* project:<id>:* and projects:user:<memberId>.
removeProjectMemberDeletes(r, ch) ==
    RedisDel(RedisDel(RedisDel(ch,
        ProjectsUserKey(r.user.id)),
        ProjectStarKey(r.pid)),
        ProjectsUserKey(r.target))

\* The (project, subject) pairs whose cached decision a step removed.
Lost(ch, ch2, t) ==
    {k \in Projects \X Users :
        /\ RedisGet(ch, ProjectUserKey(k[1], k[2]), t) # NoEntry
        /\ RedisGet(ch2, ProjectUserKey(k[1], k[2]), t) = NoEntry}

removeProjectMemberInvalidate(c) ==
    LET r == reqs[c]
        ch2 == removeProjectMemberDeletes(r, cache)
        K == Lost(cache, ch2, now)
    IN /\ At(r) = "removeProjectMember" /\ r.pc = "invalidate"
       /\ cache' = ch2
       /\ reqs' = [Forget(reqs, K) EXCEPT ![c] =
                     Respond([Log(r, "redisClient.del") EXCEPT !.hadCached = FALSE],
                             200, "Member removed successfully")]
       /\ lastCheck' = Forgotten(lastCheck, K)
       /\ removed' = IF r.hadCached THEN removed \cup {<<r.pid, r.target>>} ELSE removed
       /\ added' = added \ {<<r.pid, r.target>>}
       /\ UNCHANGED <<now, users, projects, issued, refreshIssued, lastRefresh,
                      loggedOut, tasks, profiles, workers>>

\* The handlers that write a project and then delete cache keys.
MutatingHandlers == {"updateProject", "deleteProject", "removeProjectMember"}

\* What each handler's catch block answers.
FailureMessage(handler) ==
    CASE handler = "updateProject" -> "Failed to update project"
      [] handler = "deleteProject" -> "Failed to delete project"
      [] handler = "removeProjectMember" -> "Failed to remove member from project"
      [] OTHER -> ""

\* projectWriteRejected that goes on to the DELs and answers success.
projectWriteRejectedMasked(r) ==
    Respond(Log(Log(r, "project.save rejected"), "redisClient.del"), 200, "")

\* project.save() or project.deleteOne() rejects: the await throws, the
\* DELs after it are not reached and the catch block answers 500.
projectWriteRejected(r) ==
    Respond(Log(r, "project.save rejected"), 500, FailureMessage(At(r)))

\* The datastore refuses the write of a mutating handler.
projectWriteFails(c) ==
    LET r == reqs[c] IN
    /\ At(r) \in MutatingHandlers /\ r.pc = "start"
    /\ r.projectDocument # NoDoc
    /\ reqs' = [reqs EXCEPT ![c] = [projectWriteRejected(r) EXCEPT !.outage = TRUE]]
    /\ UNCHANGED <<now, users, projects, cache, issued, refreshIssued, lastRefresh,
                   loggedOut, lastCheck, added, removed, tasks, profiles, workers>>

\* ------------------------------------------------- authorize, task controller
\* authorize that lets every identity pass.
authorizeAnyRole(r, allowedRoles) ==
    IF r.user = NoUser
    THEN Respond(r, 403, "Authentication required")
    ELSE CallNext(r)

\* authorize(allowedRoles): the role attached by authenticate against the list.
authorizeOutcome(r, allowedRoles) ==
    IF r.user = NoUser
    THEN Respond(r, 403, "Authentication required")
    ELSE IF r.user.role \notin allowedRoles
    THEN Respond(r, 403, "Insufficient permissions")
    ELSE CallNext(r)

authorize(c) ==
    LET r == reqs[c] IN
    /\ At(r) = "authorize" /\ r.pc = "start"
    /\ reqs' = [reqs EXCEPT ![c] = authorizeOutcome(r, r.allowed)]
    /\ UNCHANGED <<now, users, projects, cache, issued, refreshIssued, lastRefresh,
                   loggedOut, lastCheck, added, removed, tasks, profiles, workers>>

\* createTask: Project.findById, User.findById(assignedTo) when given,
\* task.save(), DEL tasks:project:<id>, populate, 201.
createTaskOutcome(r, us, ps) ==
    IF r.user = NoUser
    THEN Respond(r, 401, "Unauthorized")
    ELSE IF ProjectFindById(ps, r.pid) = NoDoc
    THEN Respond(Log(r, "Project.findById"), 404, "Project not found")
    ELSE IF r.target # "" /\ us[r.target] \notin Roles
    THEN Respond(Log(Log(r, "Project.findById"), "User.findById"), 400,
                 "Assigned user not found")
    ELSE Respond(Log(Log(r, "Project.findById"), "task.save"), 201, "")

createTask(c) ==
    LET r == reqs[c]
        q == createTaskOutcome(r, users, projects)
        t == CHOOSE t \in Tasks : tasks[t] = NoTask
    IN /\ At(r) = "createTask" /\ r.pc = "start"
       /\ reqs' = [reqs EXCEPT ![c] = [q EXCEPT !.tid = IF q.status = 201 THEN t ELSE ""]]
       /\ IF q.status = 201
          THEN /\ tasks' = [tasks EXCEPT ![t] =
                              [id |-> t, project |-> r.pid, assignedTo |-> r.target]]
               /\ cache' = RedisDel(cache, Key("tasks", r.pid, "", "", NoTok))
          ELSE UNCHANGED <<tasks, cache>>
       /\ UNCHANGED <<now, users, projects, issued, refreshIssued, lastRefresh,
                      loggedOut, lastCheck, added, removed, profiles, workers>>

\* getTaskById: Task.findById(taskId), whatever the project of the path.
getTaskById(c) ==
    LET r == reqs[c]
        r1 == Log(r, "Task.findById")
    IN /\ At(r) = "getTaskById" /\ r.pc = "start"
       /\ reqs' = [reqs EXCEPT ![c] =
                     IF tasks[r.tid] = NoTask
                     THEN Respond(r1, 404, "Task not found")
                     ELSE Respond(r1, 200, "")]
       /\ UNCHANGED <<now, users, projects, cache, issued, refreshIssued, lastRefresh,
                      loggedOut, lastCheck, added, removed, tasks, profiles, workers>>

\* ------------------------------------------------------- validateTaskAccess
\* validateTaskAccess, first await: the cached decision, if any.
validateTaskAccessCached(r, ch, t) ==
    IF r.user = NoUser
    THEN Respond(r, 401, "Unauthorized")
    ELSE LET cachedAccess == RedisGet(ch, TaskUserKey(r.tid, r.user.id), t).sval
             r1 == Log(r, "redisClient.get task")
         IN IF cachedAccess = "true"
            THEN CallNext([r1 EXCEPT !.chk.dec = "allow"])
            ELSE IF cachedAccess = "false"
            THEN Respond([r1 EXCEPT !.chk.dec = "deny"], 403, "Access denied to task")
            ELSE [r1 EXCEPT !.pc = "findTask"]

\* Task.findOne({ _id: taskId, project: projectId }).
TaskFindOne(ts, id, project) ==
    IF ts[id] # NoTask /\ ts[id].project = project THEN ts[id] ELSE NoTask

\* validateTaskAccess, second await: the task with its project populated.  A
\* task whose project is deleted is populated with null, and reading
\* task.project.createdBy throws into the catch block.
validateTaskAccessFind(r, ts, ps) ==
    LET task == TaskFindOne(ts, r.tid, r.pid)
        r1 == [Log(r, "Task.findOne") EXCEPT !.chk.reads = @ + 1]
    IN IF task = NoTask
       THEN Respond([r1 EXCEPT !.chk.dec = "notfound"], 404, "Task not found")
       ELSE LET project == ProjectFindById(ps, task.project) IN
            IF project = NoDoc
            THEN Respond(r1, 500, "Error validating task access")
            ELSE [r1 EXCEPT !.pc = "setAccess", !.task = task,
                            !.hasAccess = (project.createdBy = r.user.id
                                           \/ r.user.id \in project.members)]

\* validateTaskAccess, third await: SET task:<id>:user:<userId> EX 3600.
validateTaskAccessStore(r, ch, t) ==
    RedisSet(ch, TaskUserKey(r.tid, r.user.id),
             IF r.hasAccess THEN "true" ELSE "false", NoTok, TaskAccessTTL, t)

validateTaskAccessDecide(r) ==
    LET r1 == Log(r, "redisClient.set task") IN
    IF ~r.hasAccess
    THEN Respond([r1 EXCEPT !.chk.dec = "deny"], 403, "Access denied to task")
    ELSE CallNext([r1 EXCEPT !.chk.dec = "allow", !.hasAccess = FALSE])

validateTaskAccess(c) ==
    LET r == reqs[c] IN
    /\ At(r) = "validateTaskAccess" /\ r.pc = "start"
    /\ reqs' = [reqs EXCEPT ![c] = validateTaskAccessCached(r, cache, now)]
    /\ UNCHANGED <<now, users, projects, cache, issued, refreshIssued, lastRefresh,
                   loggedOut, lastCheck, added, removed, tasks, profiles, workers>>

validateTaskAccessFindTask(c) ==
    LET r == reqs[c] IN
    /\ At(r) = "validateTaskAccess" /\ r.pc = "findTask"
    /\ reqs' = [reqs EXCEPT ![c] = validateTaskAccessFind(r, tasks, projects)]
    /\ UNCHANGED <<now, users, projects, cache, issued, refreshIssued, lastRefresh,
                   loggedOut, lastCheck, added, removed, tasks, profiles, workers>>

validateTaskAccessSet(c) ==
    LET r == reqs[c] IN
    /\ At(r) = "validateTaskAccess" /\ r.pc = "setAccess"
    /\ cache' = validateTaskAccessStore(r, cache, now)
    /\ reqs' = [reqs EXCEPT ![c] = validateTaskAccessDecide(r)]
    /\ UNCHANGED <<now, users, projects, issued, refreshIssued, lastRefresh,
                   loggedOut, lastCheck, added, removed, tasks, profiles, workers>>

\* validateTaskAccess when redisClient.get, Task.findOne or redisClient.set
\* rejects: the catch block answers 500.
validateTaskAccessRejected(r) ==
    Respond(Log(r, IF r.pc = "start" THEN "redisClient.get task"
                   ELSE IF r.pc = "findTask" THEN "Task.findOne"
                   ELSE "redisClient.set task"),
            500, "Error validating task access")

\* The Redis server or the datastore cannot be reached at an await of the
\* task check.
validateTaskAccessUnreachable(c) ==
    LET r == reqs[c] IN
    /\ At(r) = "validateTaskAccess" /\ r.pc \in {"start", "findTask", "setAccess"}
    /\ reqs' = [reqs EXCEPT ![c] = [validateTaskAccessRejected(r) EXCEPT !.outage = TRUE]]
    /\ UNCHANGED <<now, users, projects, cache, issued, refreshIssued, lastRefresh,
                   loggedOut, lastCheck, added, removed, tasks, profiles, workers>>

\* ------------------------------------------------------------------ cluster
\* The primary hands a connection to one of the workers that listen.
Accept(c) ==
    \E w \in Workers :
        /\ reqs[c].pc = "start" /\ reqs[c].stage = 1 /\ reqs[c].worker = ""
        /\ workers[w].proc = "running" /\ workers[w].listening
        /\ reqs' = [reqs EXCEPT ![c].worker = w, ![c].gen = workers[w].gen]
        /\ UNCHANGED <<now, users, projects, cache, issued, refreshIssued, lastRefresh,
                       loggedOut, lastCheck, added, removed, tasks, profiles, workers>>

\* The request of c is with a worker whose Redis client takes commands.
Served(c) ==
    /\ reqs[c].worker \in Workers
    /\ workers[reqs[c].worker].redis = "ready"

\* A connection to a process that has exited is reset: no response.
Reset(r) == [Respond(r, 0, "") EXCEPT !.failStage = "reset"]

ResetAll(rs, w) ==
    [c \in Clients |->
        IF InFlight(rs[c]) /\ rs[c].worker = w THEN Reset(rs[c]) ELSE rs[c]]

\* The process is gone, its server and its Redis client with it.
Exited(worker, why) ==
    [worker EXCEPT !.proc = "exited", !.listening = FALSE, !.redis = "closed",
                   !.exit = why]

\* The process handling the request of client c exits between two awaits of
\* the request: the connection is reset, what the request has written stays.
Aborted(c) ==
    /\ InFlight(reqs[c])
    /\ reqs' = [reqs EXCEPT ![c] = Reset(reqs[c])]
    /\ UNCHANGED <<now, users, projects, cache, issued, refreshIssued, lastRefresh,
                   loggedOut, lastCheck, added, removed, tasks, profiles, workers>>

\* A worker dies (a signal, an uncaught error); its requests get no answer.
WorkerExit(w) ==
    /\ workers[w].proc = "running"
    /\ workers' = [workers EXCEPT ![w] = Exited(@, "signal")]
    /\ reqs' = ResetAll(reqs, w)
    /\ UNCHANGED <<now, users, projects, cache, issued, refreshIssued, lastRefresh,
                   loggedOut, lastCheck, added, removed, tasks, profiles>>

\* The forks the primary has made after an exit (MaxRestarts bounds the run).
RECURSIVE Forks(_, _)
Forks(ws, W) ==
    IF W = {} THEN 0
    ELSE LET w == CHOOSE v \in W : TRUE IN ws[w].gen + Forks(ws, W \ {w})

\* cluster.on('exit'): the primary forks a new worker for the slot.
Fork(w) ==
    /\ workers[w].proc = "exited"
    /\ Forks(workers, Workers) < MaxRestarts
    /\ workers' = [workers EXCEPT ![w] = Forked(workers[w].gen + 1, loggedOut)]
    /\ UNCHANGED <<now, users, projects, cache, reqs, issued, refreshIssued,
                   lastRefresh, loggedOut, lastCheck, added, removed, tasks, profiles>>

\* startServer: connectDB has resolved and app.listen runs.
Listen(w) ==
    /\ workers[w].proc = "running" /\ ~workers[w].listening
    /\ workers' = [workers EXCEPT ![w].listening = TRUE]
    /\ UNCHANGED <<now, users, projects, cache, reqs, issued, refreshIssued,
                   lastRefresh, loggedOut, lastCheck, added, removed, tasks, profiles>>

\* The socket of the Redis client connects: 'ready'.
RedisConnected(w) ==
    /\ workers[w].proc = "running"
    /\ workers[w].redis \in {"connecting", "reconnecting"}
    /\ workers' = [workers EXCEPT ![w].redis = "ready", ![w].retries = 0]
    /\ UNCHANGED <<now, users, projects, cache, reqs, issued, refreshIssued,
                   lastRefresh, loggedOut, lastCheck, added, removed, tasks, profiles>>

\* ------------------------------------------------------------ Redis client
\* reconnectStrategy(retries): an Error after the fifth retry, else the wait
\* in milliseconds before the next attempt.
reconnectStrategy(retries) ==
    IF retries > 5
    THEN [error |-> TRUE, delay |-> 0]
    ELSE [error |-> FALSE,
          delay |-> IF retries * 100 < 5000 THEN retries * 100 ELSE 5000]

\* An attempt to connect fails (refused, or connectTimeout has run out):
\* the client asks reconnectStrategy.  A number is the wait before the next
\* attempt; an Error ends the attempts, and if the first connection was
\* still being made, connect() rejects and the process exits with code 1.
RedisConnectFails(w) ==
    LET r == reconnectStrategy(workers[w].retries) IN
    /\ workers[w].proc = "running"
    /\ workers[w].redis \in {"connecting", "reconnecting"}
    /\ IF ~r.error
       THEN /\ workers' = [workers EXCEPT ![w].retries = @ + 1, ![w].delay = r.delay]
            /\ UNCHANGED reqs
       ELSE IF workers[w].redis = "connecting"
       THEN /\ workers' = [workers EXCEPT ![w] = Exited(@, "redis")]
            /\ reqs' = ResetAll(reqs, w)
       ELSE /\ workers' = [workers EXCEPT ![w].redis = "closed"]
            /\ UNCHANGED reqs
    /\ UNCHANGED <<now, users, projects, cache, issued, refreshIssued, lastRefresh,
                   loggedOut, lastCheck, added, removed, tasks, profiles>>

\* The connection of a ready client is lost: 'error', then the client
\* reconnects, asking reconnectStrategy from retries = 0 again.
RedisLost(w) ==
    /\ workers[w].proc = "running" /\ workers[w].redis = "ready"
    /\ workers' = [workers EXCEPT ![w].redis = "reconnecting", ![w].retries = 0,
                                  ![w].delay = 0]
    /\ UNCHANGED <<now, users, projects, cache, reqs, issued, refreshIssued,
                   lastRefresh, loggedOut, lastCheck, added, removed, tasks, profiles>>

\* ------------------------------------------------------------- environment
\* The clock advances; Redis drops the entries whose EX has run out.
Expire(ch, t) == {e \in ch : e.exp > t}

Tick ==
    \E t \in Instants :
        LET K == {k \in Projects \X Users :
                    RedisGet(cache, ProjectUserKey(k[1], k[2]), t) = NoEntry}
        IN /\ t > now
           /\ now' = t
           /\ cache' = Expire(cache, t)
           /\ reqs' = Forget(reqs, K)
           /\ lastCheck' = Forgotten(lastCheck, K)
           /\ UNCHANGED <<users, projects, issued, refreshIssued, lastRefresh,
                          loggedOut, added, removed, tasks, profiles, workers>>

\* The datastore loses a user's account (no route of the API deletes one).
UserDeleted(u) ==
    /\ users[u] \in Roles
    /\ \A c \in Clients : ~(InFlight(reqs[c]) /\ reqs[c].route = "register")
    /\ users' = [users EXCEPT ![u] = "deleted"]
    /\ UNCHANGED <<now, projects, cache, reqs, issued, refreshIssued, lastRefresh,
                   loggedOut, lastCheck, added, removed, tasks, profiles, workers>>

\* The datastore gets another role for a user (no route of the API changes
\* one).
RoleChanged(u) ==
    \E role \in Roles :
        /\ users[u] \in Roles /\ role # users[u]
        /\ \A c \in Clients : ~(InFlight(reqs[c]) /\ reqs[c].route = "register")
        /\ users' = [users EXCEPT ![u] = role]
        /\ UNCHANGED <<now, projects, cache, reqs, issued, refreshIssued, lastRefresh,
                       loggedOut, lastCheck, added, removed, tasks, profiles, workers>>

\* ------------------------------------------------------------ specification
\* The steps of the auth router (/auth/register, /auth/login, /auth/logout and
\* the unrouted /auth/refresh-token) for client c.
AuthRouter(c) ==
    \/ authenticate(c)
    \/ register(c) \/ login(c) \/ logout(c) \/ logoutDelete(c)
    \/ notFoundHandler(c)

\* The steps of the project router for client c.
ProjectRouter(c) ==
    \/ validateProjectCreation(c) \/ validateProjectType(c)
    \/ validateProjectAccess(c) \/ validateProjectAccessFindProject(c)
    \/ validateProjectAccessSet(c)
    \/ validateProjectOwner(c) \/ validateProjectMember(c)
    \/ createProject(c) \/ getProjectById(c)
    \/ updateProject(c) \/ deleteProject(c) \/ projectInvalidate(c)
    \/ addProjectMember(c)
    \/ removeProjectMember(c) \/ removeProjectMemberInvalidate(c)

\* The steps of the task router for client c.
TaskRouter(c) == authorize(c) \/ createTask(c) \/ getTaskById(c)

\* The whole API, every client sending any request.
Next ==
    \/ \E c \in Clients :
          \/ SendRegister(c, ValidRegistrations \cup InvalidRegistrations)
          \/ SendLogin(c, ValidLogins \cup InvalidLogins)
          \/ SendLogout(c, Credentials) \/ SendRefresh(c) \/ SendProject(c)
          \/ SendTask(c, {TaskCreators})
          \/ AuthRouter(c) \/ ProjectRouter(c) \/ TaskRouter(c)
    \/ Tick
    \/ \E u \in Users : UserDeleted(u)

Spec == Init /\ [][Next]_vars

\* The token lifecycle: one client on the auth router, with every credential
\* and every body, the clock and the loss of accounts.
AuthNext ==
    \/ SendRegister("c1", ValidRegistrations \cup InvalidRegistrations)
    \/ SendLogin("c1", ValidLogins \cup InvalidLogins)
    \/ SendLogout("c1", Credentials) \/ SendRefresh("c1")
    \/ AuthRouter("c1")
    \/ Tick
    \/ \E u \in Users : UserDeleted(u)

AuthSpec == Init /\ [][AuthNext]_vars

\* The token lifecycle while the Redis server may be out of reach at any
\* blacklist lookup.
OutageNext ==
    \/ SendRegister("c1", ValidRegistrations)
    \/ SendLogin("c1", ValidLogins)
    \/ SendLogout("c1", Credentials) \/ SendRefresh("c1")
    \/ AuthRouter("c1")
    \/ authenticateUnreachable("c1")
    \/ Tick
    \/ \E u \in Users : UserDeleted(u)

OutageSpec == Init /\ [][OutageNext]_vars

\* The cluster: one client whose requests the primary hands to either
\* worker, the workers dying and being forked again.
ClusterNext ==
    \/ SendRegister("c1", ValidRegistrations)
    \/ SendLogout("c1", Issued)
    \/ Accept("c1")
    \/ (Served("c1") /\ (\/ authenticate("c1") \/ register("c1")
                          \/ logout("c1") \/ logoutDelete("c1")))
    \/ \E w \in Workers :
          WorkerExit(w) \/ Fork(w) \/ Listen(w) \/ RedisConnected(w)
    \/ Tick

ClusterSpec == Init /\ [][ClusterNext]_vars

\* The token lifecycle while Redis and the datastore may be out of reach at
\* any call of authenticate.
FaultNext ==
    \/ OutageNext
    \/ authenticateDatastoreUnreachable("c1")

FaultSpec == Init /\ [][FaultNext]_vars

\* The life of the worker processes from their fork on: the server starts
\* to listen, the Redis client connects, fails, loses its connection and
\* reconnects, while a client sends requests without a valid token.
BootInit ==
    /\ now = 0
    /\ users = [u \in Users |-> "absent"]
    /\ projects = [p \in Projects |-> NoDoc]
    /\ cache = {}
    /\ reqs = [c \in Clients |-> Idle]
    /\ issued = {}
    /\ refreshIssued = {}
    /\ lastRefresh = [u \in Users |-> NoTok]
    /\ loggedOut = {}
    /\ lastCheck = [k \in Projects \X Users |-> "none"]
    /\ added = {}
    /\ removed = {}
    /\ tasks = [t \in Tasks |-> NoTask]
    /\ profiles = [u \in Users |-> NoProfile]
    /\ workers = [w \in Workers |-> Forked(0, {})]

\* authenticate answers a request without a Bearer token before any command
\* goes to Redis.
NoCommand(c) == reqs[c].scheme # "bearer" \/ reqs[c].tok = NoTok

BootNext ==
    \/ SendLogout("c1", Unsigned)
    \/ Accept("c1")
    \/ (/\ reqs["c1"].worker \in Workers
        /\ Served("c1") \/ NoCommand("c1")
        /\ authenticate("c1"))
    \/ \E w \in Workers :
          \/ Fork(w) \/ Listen(w)
          \/ RedisConnected(w) \/ RedisConnectFails(w) \/ RedisLost(w)

BootSpec == BootInit /\ [][BootNext]_vars

\* Two clients on the auth router: both log out and refresh with any
\* credential while the other's request is in flight; the first one registers
\* and logs in.
PeerNext ==
    \/ SendRegister("c1", ValidRegistrations)
    \/ SendLogin("c1", ValidLogins)
    \/ \E c \in Clients :
          \/ SendLogout(c, Credentials) \/ SendRefresh(c)
          \/ AuthRouter(c)
    \/ Tick

PeerSpec == Init /\ [][PeerNext]_vars

\* The access-decision cache: one client that registers, logs in and uses the
\* project router with the tokens it was issued, and the clock.
AccessNext ==
    \/ SendRegister("c1", ValidRegistrations)
    \/ SendLogin("c1", ValidLogins)
    \/ SendProject("c1")
    \/ authenticate("c1") \/ register("c1") \/ login("c1")
    \/ ProjectRouter("c1")
    \/ Tick

AccessSpec == Init /\ [][AccessNext]_vars

\* The project routes while the Redis server may be out of reach at any
\* command of the access check.
AccessOutageNext ==
    \/ SendRegister("c1", ValidRegistrations)
    \/ SendCreateProject("c1") \/ SendProjectRequest("c1")
    \/ authenticate("c1") \/ register("c1")
    \/ validateProjectCreation("c1") \/ validateProjectType("c1")
    \/ createProject("c1")
    \/ validateProjectAccess("c1") \/ validateProjectAccessFindProject("c1")
    \/ validateProjectAccessSet("c1")
    \/ validateProjectAccessUnreachable("c1")
    \/ validateProjectOwner("c1")
    \/ getProjectById("c1") \/ updateProject("c1") \/ deleteProject("c1")
    \/ projectInvalidate("c1")
    \/ Tick

AccessOutageSpec == Init /\ [][AccessOutageNext]_vars

\* The project router while the datastore may refuse any write of a project.
CommitNext ==
    \/ SendRegister("c1", ValidRegistrations)
    \/ SendProject("c1")
    \/ authenticate("c1") \/ register("c1")
    \/ ProjectRouter("c1")
    \/ projectWriteFails("c1")
    \/ Tick

CommitSpec == Init /\ [][CommitNext]_vars

\* The routes that write tokens and permission decisions to Redis, any
\* request of which may be cut short at any await: register, logout, and the
\* creation and the reading of a project.
AbortNext ==
    \/ SendRegister("c1", ValidRegistrations)
    \/ SendLogout("c1", Issued)
    \/ SendCreateProject("c1") \/ SendGetProject("c1")
    \/ authenticate("c1") \/ register("c1")
    \/ logout("c1") \/ logoutDelete("c1")
    \/ validateProjectCreation("c1") \/ validateProjectType("c1") \/ createProject("c1")
    \/ validateProjectAccess("c1") \/ validateProjectAccessFindProject("c1")
    \/ validateProjectAccessSet("c1")
    \/ getProjectById("c1")
    \/ Aborted("c1")
    \/ Tick

AbortSpec == Init /\ [][AbortNext]_vars

\* A client that removes members of a project while another reads it: the
\* first registers, creates the project and sends DELETE
\* /:projectId/members/:memberId, the second sends GET /:projectId.
StaleNext ==
    \/ SendRegister("c1", ValidRegistrations)
    \/ SendCreateProject("c1") \/ SendRemoveMember("c1")
    \/ authenticate("c1") \/ register("c1")
    \/ validateProjectCreation("c1") \/ validateProjectType("c1") \/ createProject("c1")
    \/ validateProjectAccess("c1") \/ validateProjectAccessFindProject("c1")
    \/ validateProjectAccessSet("c1")
    \/ validateProjectOwner("c1")
    \/ removeProjectMember("c1") \/ removeProjectMemberInvalidate("c1")
    \/ SendGetProject("c2")
    \/ authenticate("c2")
    \/ validateProjectAccess("c2") \/ validateProjectAccessFindProject("c2")
    \/ validateProjectAccessSet("c2")
    \/ getProjectById("c2")
    \/ Tick

StaleSpec == Init /\ [][StaleNext]_vars

\* Two clients reading projects at the same time, nobody writing one after
\* its creation: the first registers and creates the project, both send
\* GET /projects/:projectId with the tokens issued.
RaceNext ==
    \/ SendRegister("c1", ValidRegistrations)
    \/ SendCreateProject("c1")
    \/ register("c1") \/ validateProjectCreation("c1") \/ validateProjectType("c1")
    \/ createProject("c1")
    \/ \E c \in Clients :
          \/ SendGetProject(c)
          \/ authenticate(c)
          \/ validateProjectAccess(c) \/ validateProjectAccessFindProject(c)
          \/ validateProjectAccessSet(c)
          \/ getProjectById(c)

RaceSpec == Init /\ [][RaceNext]_vars

\* The task router: one client that registers, creates a project and uses
\* the task routes, and the clock.
TaskNext ==
    \/ SendRegister("c1", ValidRegistrations)
    \/ SendCreateProject("c1")
    \/ SendTask("c1", {TaskCreators})
    \/ authenticate("c1") \/ register("c1")
    \/ validateProjectCreation("c1") \/ validateProjectType("c1")
    \/ createProject("c1")
    \/ TaskRouter("c1")
    \/ Tick

TaskSpec == Init /\ [][TaskNext]_vars

\* The task access check: one client that registers, creates a project and a
\* task and reads the task through validateTaskAccess, and the clock.
TaskGuard(c) ==
    validateTaskAccess(c) \/ validateTaskAccessFindTask(c) \/ validateTaskAccessSet(c)

GuardNext ==
    \/ SendRegister("c1", ValidRegistrations)
    \/ SendCreateProject("c1")
    \/ SendTask("c1", {TaskCreators}) \/ SendGuardedTask("c1")
    \/ authenticate("c1") \/ register("c1")
    \/ validateProjectCreation("c1") \/ validateProjectType("c1")
    \/ createProject("c1")
    \/ TaskRouter("c1") \/ TaskGuard("c1")
    \/ Tick

GuardSpec == Init /\ [][GuardNext]_vars

\* The task router with authorize mounted with any list of roles.
RoleNext ==
    \/ SendRegister("c1", ValidRegistrations)
    \/ SendCreateProject("c1")
    \/ SendTask("c1", SUBSET Roles)
    \/ authenticate("c1") \/ register("c1")
    \/ validateProjectCreation("c1") \/ validateProjectType("c1")
    \/ createProject("c1")
    \/ TaskRouter("c1")
    \/ Tick

RoleSpec == Init /\ [][RoleNext]_vars

\* The project list: one client that registers, creates projects and reads
\* GET /projects, and the clock.
ListNext ==
    \/ SendRegister("c1", ValidRegistrations)
    \/ SendCreateProject("c1") \/ SendGetProjects("c1")
    \/ authenticate("c1") \/ register("c1")
    \/ validateProjectCreation("c1") \/ validateProjectType("c1")
    \/ createProject("c1")
    \/ getProjects("c1") \/ getProjectsFind("c1") \/ getProjectsSet("c1")
    \/ Tick

ListSpec == Init /\ [][ListNext]_vars

\* Every guard of the API in front of one client's requests, the Redis
\* server and the datastore failing at any of their awaits.
OutcomeStep(c) ==
    \/ authenticate(c) \/ register(c)
    \/ authenticateUnreachable(c) \/ authenticateDatastoreUnreachable(c)
    \/ validateProjectCreation(c) \/ validateProjectType(c) \/ createProject(c)
    \/ validateProjectAccess(c) \/ validateProjectAccessFindProject(c)
    \/ validateProjectAccessSet(c) \/ validateProjectAccessUnreachable(c)
    \/ validateProjectOwner(c) \/ validateProjectOwnerUnreachable(c)
    \/ getProjectById(c) \/ updateProject(c) \/ deleteProject(c)
    \/ projectInvalidate(c)
    \/ TaskRouter(c) \/ TaskGuard(c) \/ validateTaskAccessUnreachable(c)

OutcomeNext ==
    \/ SendRegister("c1", ValidRegistrations)
    \/ SendLogout("c1", Unsigned)
    \/ SendCreateProject("c1") \/ SendProjectRequest("c1")
    \/ SendTask("c1", {TaskCreators}) \/ SendGuardedTask("c1")
    \/ OutcomeStep("c1")

OutcomeSpec == Init /\ [][OutcomeNext]_vars

\* Project creation and the task router, authorize mounted with two lists of
\* roles, while the roles of the users change in the datastore.
FreshNext ==
    \/ SendRegister("c1", ValidRegistrations)
    \/ SendCreateProject("c1")
    \/ SendTask("c1", {{"admin"}, {"admin", "manager"}})
    \/ authenticate("c1") \/ register("c1")
    \/ validateProjectCreation("c1") \/ validateProjectType("c1")
    \/ createProject("c1")
    \/ TaskRouter("c1")
    \/ \E u \in Users : RoleChanged(u)

FreshSpec == Init /\ [][FreshNext]_vars

\* ------------------------------------------------------------- properties
\* C1: immediate revocation.  A request that presents an access token whose
\* logout had answered success before the request arrived never has next
\* called by authenticate, and is answered 401, at every instant up to the
\* token's expiry (and after it).
ImmediateRevocation ==
    \A c \in Clients :
        LET r == reqs[c] IN
        (r.afterLogout /\ r.tok.kind = "access")
            => /\ r.authNext = 0
               /\ r.stage <= 1
               /\ (r.pc = "done" => r.status = 401)

\* A revoked token, still unexpired and of a live account, has been refused.
RevokedTokenRefused ==
    \E c \in Clients :
        LET r == reqs[c] IN
        /\ r.afterLogout /\ r.tok.kind = "access" /\ r.pc = "done"
        /\ now < r.tok.exp /\ users[r.tok.sub] \in Roles
        /\ r.failStage = "revoked" /\ r.status = 401

\* C2: rotation exclusivity.  Of two refresh requests with the same refresh
\* token that overlap, the token being the registry's record when they arrive,
\* exactly one is answered success and the other 401 or 409.
RotationExclusivity ==
    \A c, d \in Clients :
        LET r == reqs[c]
            q == reqs[d]
        IN (/\ c # d
            /\ r.route = "refresh-token" /\ q.route = "refresh-token"
            /\ r.pc = "done" /\ q.pc = "done"
            /\ r.tok = q.tok /\ r.overlap /\ q.overlap
            /\ r.registered /\ q.registered)
           => \/ r.status = 200 /\ q.status \in {401, 409}
              \/ q.status = 200 /\ r.status \in {401, 409}

\* C3: invalidation on add.  An access check of (S, R) that starts after an
\* add-member request for S to R, accepted by validateProjectMember, has been
\* handled while a deny was cached for (S, R), reads the datastore and returns
\* allow.
InvalidationOnAdd ==
    \A c \in Clients :
        LET r == reqs[c] IN
        (r.afterAdd /\ r.chk.dec # "none")
            => r.chk.dec = "allow" /\ r.chk.reads = 1

\* C4: invalidation on removal.  An access check of (S, R) that starts after a
\* remove-member request for S from R has answered success while an allow was
\* cached for (S, R), reads the datastore and returns deny.
InvalidationOnRemoval ==
    \A c \in Clients :
        LET r == reqs[c] IN
        (r.afterRemove /\ r.chk.dec # "none")
            => r.chk.dec = "deny" /\ r.chk.reads = 1

\* C5: decision rule.  The step of an access check that decides on a cache
\* miss returns allow, and caches 'true', exactly when the subject is the
\* project's owner or one of its members in the datastore; otherwise it
\* returns deny and caches 'false'.
DecisionRule ==
    [][\A c \in Clients :
         LET r == reqs[c]
             q == reqs'[c]
             project == projects[r.pid]
             entitled == r.user.id = project.createdBy \/ r.user.id \in project.members
         IN (At(r) = "validateProjectAccess" /\ r.pc = "setAccess"
               /\ q.chk.dec \in {"allow", "deny"})
            => /\ (q.chk.dec = "allow") <=> entitled
               /\ RedisGet(cache', ProjectUserKey(r.pid, r.user.id), now).sval
                    = (IF entitled THEN "true" ELSE "false")]_vars

\* C6: idempotent cache hit.  An access check that returns a decision, the
\* check completed before it for the same (subject, project) having returned
\* allow or deny with no change of the project's members, loss of the cached
\* decision or expiry in between, returns that same decision and reads the
\* datastore not once.
IdempotentCacheHit ==
    \A c \in Clients :
        LET r == reqs[c] IN
        (r.chk.dec \in {"allow", "deny"} /\ r.chk.prev \in {"allow", "deny"})
            => r.chk.dec = r.chk.prev /\ r.chk.reads = 0

\* A denied subject has been denied again from the cache.
DenyServedFromCache ==
    \E c \in Clients :
        LET r == reqs[c] IN
        /\ r.pc = "done" /\ r.status = 403
        /\ r.chk.prev = "deny" /\ r.chk.dec = "deny" /\ r.chk.reads = 0
        /\ r.ops[Len(r.ops)] = "redisClient.get project"

\* C7: the gate.  A step of authenticate calls next only if the header has
\* the Bearer scheme, the token is not empty, it is well-formed, signed with
\* the access secret, unexpired and not in the blacklist, and its subject is
\* an account of the datastore; when one of these fails the step answers 401
\* and does not call next.
AuthGate ==
    [][\A c \in Clients :
         LET r == reqs[c]
             q == reqs'[c]
             good == /\ FailStage(r, cache, now) = "none"
                     /\ users[r.tok.sub] \in Roles
         IN (At(r) = "authenticate" /\ r.pc = "start" /\ q # r)
            => /\ (q.authNext > r.authNext) => good
               /\ ~good => /\ q.pc = "done" /\ q.status = 401
                           /\ q.authNext = r.authNext /\ q.stage = r.stage]_vars

\* A deleted account's token, valid in itself, has been refused.
DeletedAccountRefused ==
    \E c \in Clients :
        LET r == reqs[c] IN
        /\ r.pc = "done" /\ r.failStage = "subject" /\ r.status = 401
        /\ r.authNext = 0
        /\ r.tok.kind = "access" /\ now < r.tok.exp
        /\ users[r.tok.sub] = "deleted"
        /\ RedisGet(cache, BlacklistKey(r.tok), now) = NoEntry

\* The calls authenticate awaits.
Blacklist == "redisClient.get blacklist"
Verify == "jwt.verify"
Refused == {"malformed", "signature", "expired", "revoked"}

\* C8 as the specification states it: a request refused for a malformed,
\* badly signed or expired token has not consulted the blacklist.
RegistryConsultedLast ==
    \A c \in Clients :
        LET r == reqs[c] IN
        r.failStage \in {"malformed", "signature", "expired"}
            => \A i \in 1..Len(r.ops) : r.ops[i] # Blacklist

\* C8: order of the checks, as the code makes them.  authenticate consults
\* the blacklist first, for every non-empty Bearer token, and calls jwt.verify
\* (structure, signature, expiry) only when the token is not in it; the
\* datastore is read only for a token that passed both.
RegistryConsultedFirst ==
    \A c \in Clients :
        LET r == reqs[c] IN
        /\ r.failStage \in {"malformed", "signature", "expired"}
              => r.ops = <<Blacklist, Verify>>
        /\ r.failStage = "revoked" => r.ops = <<Blacklist>>
        /\ r.failStage \in {"header", "empty"} => r.ops = << >>
        /\ r.failStage = "subject" => r.ops = <<Blacklist, Verify, "User.findById">>

\* A malformed token has been refused after a lookup in the blacklist.
MalformedLookedUp ==
    \E c \in Clients :
        LET r == reqs[c] IN
        /\ r.pc = "done" /\ r.failStage = "malformed"
        /\ r.ops = <<Blacklist, Verify>>

\* C9 as the specification states it: two requests refused at different
\* stages receive the same status and the same message.
SingleGenericFailure ==
    \A c, d \in Clients :
        LET r == reqs[c]
            q == reqs[d]
        IN (r.pc = "done" /\ q.pc = "done" /\ r.failStage \in Refused
              /\ q.failStage \in Refused /\ r.failStage # q.failStage)
           => r.status = q.status /\ r.message = q.message

\* The message authenticate sends for each stage.
RefusalMessage(stage) ==
    IF stage \in {"expired", "revoked"}
    THEN "Session expired. Please login again"
    ELSE "Invalid authentication token"

\* C9: outcome of a refusal, as the code answers.  Two requests refused at
\* different stages receive the same status, 401; they receive the same
\* message only when both stages are among malformed and bad signature
\* ('Invalid authentication token') or both among expired and revoked
\* ('Session expired. Please login again').
TwoFailureMessages ==
    \A c, d \in Clients :
        LET r == reqs[c]
            q == reqs[d]
        IN (r.pc = "done" /\ q.pc = "done" /\ r.failStage \in Refused
              /\ q.failStage \in Refused)
           => /\ r.status = 401 /\ q.status = 401
              /\ r.message = RefusalMessage(r.failStage)
              /\ q.message = RefusalMessage(q.failStage)
              /\ (r.message = q.message)
                   <=> (RefusalMessage(r.failStage) = RefusalMessage(q.failStage))

\* A revoked token and a malformed one have been refused, with two messages.
RevokedAndMalformedDiffer ==
    /\ reqs["c1"].pc = "done" /\ reqs["c1"].failStage = "revoked"
    /\ reqs["c2"].pc = "done" /\ reqs["c2"].failStage = "malformed"
    /\ reqs["c1"].status = reqs["c2"].status
    /\ reqs["c1"].message # reqs["c2"].message

\* C10: refresh registry.  The cache holds at most one refresh record per
\* subject, under refresh:<subject>, and the record is the refresh token the
\* most recent issuance for that subject returned.
RefreshRegistry ==
    \A u \in Users :
        LET records == {e \in cache : e.key.ns = "refresh" /\ e.tval.sub = u} IN
        /\ Cardinality(records) <= 1
        /\ \A e \in records : e.key = RefreshKey(u) /\ e.tval = lastRefresh[u]

\* A second issuance for a subject has overwritten the first one's record.
RefreshRecordOverwritten ==
    \E u \in Users :
        /\ Cardinality({t \in refreshIssued : t.sub = u}) = 2
        /\ RedisGet(cache, RefreshKey(u), now).tval = lastRefresh[u]
        /\ lastRefresh[u].iat > 0

\* C11: revocation entry TTL.  The step of logout that blacklists the token
\* leaves blacklist:<token> with a TTL of exactly the token's expiry minus the
\* clock when that is positive, and writes no blacklist entry otherwise; the
\* step that ends the logout leaves no refresh record of the identity.
RevocationEntryTTL ==
    [][\A c \in Clients :
         LET r == reqs[c]
             q == reqs'[c]
             remaining == r.token.exp - now
             entry == RedisGet(cache', BlacklistKey(r.token), now)
         IN /\ (At(r) = "logout" /\ r.pc = "start" /\ q.pc = "delete")
               => IF remaining > 0
                  THEN entry # NoEntry /\ entry.exp - now = remaining
                  ELSE {e \in cache' : e.key.ns = "blacklist"}
                         = {e \in cache : e.key.ns = "blacklist"}
            /\ (At(r) = "logout" /\ r.pc = "delete" /\ q.pc = "done")
               => /\ q.status = 200
                  /\ RedisGet(cache', RefreshKey(r.user.id), now) = NoEntry]_vars

\* A token with five of its fifteen minutes left has been blacklisted for
\* those five minutes.
PartLifetimeBlacklisted ==
    \E c \in Clients :
        LET r == reqs[c] IN
        /\ At(r) = "logout" /\ r.pc = "delete" /\ r.expiresIn = 300
        /\ RedisGet(cache, BlacklistKey(r.token), now).exp = now + 300

\* The cached access decisions of project p.
Decisions(ch, p) == {e \in ch : e.key.ns = "project" /\ e.key.res = p /\ e.key.tail = "user"}

\* C12: prefix invalidation.  The keys of cached decisions name the project
\* before the subject, and when the invalidation of a project by the update,
\* delete or remove-member handler completes, no cached decision of that
\* project remains for any subject, while the decisions of every other
\* project are as before.
PrefixInvalidation ==
    [][\A c \in Clients :
         LET r == reqs[c] IN
         (r.pc = "invalidate" /\ reqs'[c].pc = "done" /\ reqs'[c].status = 200)
            => /\ Decisions(cache', r.pid) = {}
               /\ \A p \in Projects \ {r.pid} : Decisions(cache', p) = Decisions(cache, p)]_vars

\* The request has reached the business handler of its route.
Handled(r) == r.stage > 0 /\ r.stage = Len(Pipeline(r.route))

TaskRoutes == {"createTask", "getTaskById"}
OwnerRoutes == {"updateProject", "deleteProject", "removeProjectMember"}

\* C13: permission gate.  A request reaches the handler of a project-scoped
\* or task-scoped route only after authenticate has called next and the
\* access check of the requester on that resource has returned allow.
PermissionGate ==
    \A c \in Clients :
        LET r == reqs[c] IN
        (r.route \in ProjectRoutes \cup TaskRoutes /\ Handled(r))
            => r.authNext >= 1 /\ r.chk.dec = "allow"

AdminAccess ==
    \A c \in Clients :
        LET r == reqs[c] IN
        (/\ r.route \in ProjectRoutes /\ r.pc = "done" /\ r.authNext = 2
         /\ users[r.tok.sub] = "admin"
         /\ ProjectFindById(projects, r.pid) # NoDoc)
            => r.status # 403

\* C16: role-only checks.  A step of authorize calls next exactly when an
\* identity is attached and its role is in the allowed list, and answers 403
\* otherwise; a step of validateProjectCreation calls next exactly for the
\* roles admin and manager, and answers 403 otherwise.
RoleOnlyChecks ==
    [][\A c \in Clients :
         LET r == reqs[c]
             q == reqs'[c]
             passed == q.stage = r.stage + 1 /\ q.pc = "start"
             refused == q.stage = r.stage /\ q.pc = "done" /\ q.status = 403
         IN /\ (At(r) = "authorize" /\ r.pc = "start" /\ q # r)
               => IF r.user # NoUser /\ r.user.role \in r.allowed
                  THEN passed ELSE refused
            /\ (At(r) = "validateProjectCreation" /\ r.pc = "start" /\ q # r)
               => IF r.user # NoUser /\ r.user.role \in {"admin", "manager"}
                  THEN passed ELSE refused]_vars

\* A member has been refused by authorize(['admin', 'manager']).
MemberRefusedByAuthorize ==
    \E c \in Clients :
        LET r == reqs[c] IN
        /\ r.route = "createTask" /\ At(r) = "authorize" /\ r.pc = "done"
        /\ r.status = 403 /\ r.allowed = {"admin", "manager"}
        /\ users[r.tok.sub] = "member"

FailClosedUnauthenticated ==
    \A c \in Clients :
        reqs[c].outage => reqs[c].pc = "done" /\ reqs[c].status = 401

\* C18, as the code has it: a request whose blacklist lookup failed ends in
\* authenticate with 500 'Authentication failed', whatever the token; next is
\* not called and no later middleware or handler runs.
FailClosedInternal ==
    \A c \in Clients :
        reqs[c].outage =>
            /\ reqs[c].pc = "done" /\ At(reqs[c]) = "authenticate"
            /\ reqs[c].status = 500 /\ reqs[c].message = "Authentication failed"
            /\ reqs[c].user = NoUser
            /\ reqs[c].ops[Len(reqs[c].ops)] = "redisClient.get blacklist"

\* A token that verifies, of an account that exists, not blacklisted, is
\* refused because the lookup failed.
ValidTokenRefusedOnOutage ==
    \E c \in Clients :
        /\ reqs[c].outage /\ reqs[c].pc = "done"
        /\ JwtVerify(reqs[c].tok, now) = "ok"
        /\ users[reqs[c].tok.sub] \in Roles
        /\ RedisGet(cache, BlacklistKey(reqs[c].tok), now) = NoEntry

\* C19: cache-independent permission decisions.  An access check that finds
\* the cache store unreachable decides from the datastore: it calls next for
\* a member of the project and refuses anybody else with 403 (404 when the
\* project does not exist); it does not fail the request.
CacheIndependentDecision ==
    \A c \in Clients :
        LET r == reqs[c]
            project == ProjectFindById(projects, r.pid)
        IN (r.outage /\ r.route \in ProjectRoutes /\ r.stage >= 3) =>
              /\ r.status # 500
              /\ r.chk.dec = IF project = NoDoc THEN "notfound"
                             ELSE IF hasProjectAccess(project, r.tok.sub) THEN "allow"
                             ELSE "deny"

\* C20: identity attachment.  When authenticate calls next, req.user is the
\* identity of the token's subject as the datastore holds it (id, role,
\* profession if any) and has no password or other secret field, and
\* req.token is the token as presented; the logout that follows writes the
\* blacklist entry of exactly that token and no other entry.
IdentityAttachment ==
    [][\A c \in Clients :
          LET r == reqs[c]
              q == reqs'[c]
          IN /\ q.authNext > r.authNext =>
                   /\ DOMAIN q.user = {"id", "role", "profession"}
                   /\ q.user.id = r.tok.sub
                   /\ q.user.role = users[r.tok.sub]
                   /\ q.user.profession = profiles[r.tok.sub].professionRoleType
                   /\ q.token = r.tok
             /\ (At(r) = "logout" /\ r.pc = "start" /\ q.pc = "delete") =>
                   /\ \A e \in cache' \ cache : e.key = BlacklistKey(r.tok)
                   /\ now < r.tok.exp =>
                         RedisGet(cache', BlacklistKey(r.tok), now) # NoEntry]_vars

\* A member with a profession logs out: the identity attached carries the
\* profession and the presented token is the one blacklisted.
MemberIdentityLoggedOut ==
    \E c \in Clients :
        /\ At(reqs[c]) = "logout" /\ reqs[c].pc = "delete"
        /\ reqs[c].user.profession = "frontend"
        /\ reqs[c].token = reqs[c].tok
        /\ RedisGet(cache, BlacklistKey(reqs[c].tok), now) # NoEntry

\* C21: shared state across workers.  Whichever worker handled the logout
\* of a token, and whichever workers have been forked again since, a request
\* that presents the token afterwards never has next called by authenticate
\* on the worker that takes it, and the answer it gets is 401.
RevocationAcrossWorkers ==
    \A c \in Clients :
        LET r == reqs[c] IN
        (r.afterLogout /\ r.tok.kind = "access" /\ r.worker \in Workers)
            => /\ r.authNext = 0
               /\ r.stage <= 1
               /\ (r.pc = "done" /\ r.failStage # "reset") => r.status = 401

\* A token whose logout another worker handled is refused as revoked by a
\* worker that was forked after the logout.
RefusedByForkedWorker ==
    \E c \in Clients :
        LET r == reqs[c] IN
        /\ r.afterLogout /\ r.pc = "done" /\ r.failStage = "revoked"
        /\ r.worker \in Workers
        /\ r.tok \in workers[r.worker].bornAfter
        /\ \E w \in Workers \ {r.worker} : r.tok \in workers[w].handled

\* The stages at which a credential fails.
CredentialFailures ==
    {"header", "empty", "malformed", "signature", "expired", "revoked", "subject"}

BackoffShape ==
    [][\A w \in Workers :
          LET n == workers[w].retries IN
          (workers'[w].retries = n + 1) =>
              /\ workers'[w].delay <= 5000
              /\ (n >= 2 /\ reconnectStrategy(n - 2).delay > 0
                         /\ workers'[w].delay < 5000) =>
                    workers'[w].delay * reconnectStrategy(n - 2).delay
                        = workers[w].delay * workers[w].delay]_vars

\* C24: reconnect ceiling and lifecycle.  reconnectStrategy is asked at most
\* six times without a wait in between being granted a seventh; a client that
\* has given up makes no further attempt; the process whose first connection
\* fails exits without having answered a request; a process whose client was
\* ready once does not exit over the loss of Redis.
ReconnectLifecycle ==
    [][\A w \in Workers :
          LET old == workers[w]
              new == workers'[w]
          IN /\ new.retries <= 6
             /\ (old.redis = "closed" /\ new.gen = old.gen) =>
                   (new.redis = "closed" /\ new.retries = old.retries)
             /\ (new.exit = "redis" /\ old.exit # "redis") =>
                   /\ old.redis = "connecting"
                   /\ \A c \in Clients :
                         (reqs[c].worker = w /\ reqs[c].gen = old.gen)
                             => reqs[c].status = 0
             /\ old.redis \in {"ready", "reconnecting"} => new.proc = "running"]_vars

\* The position of the first occurrence of op in a log, 0 if there is none.
First(ops, op) ==
    IF \E i \in 1..Len(ops) : ops[i] = op
    THEN CHOOSE i \in 1..Len(ops) :
            ops[i] = op /\ \A j \in 1..(i - 1) : ops[j] # op
    ELSE 0

\* C25: invalidation strictly after commit.  In update project, delete
\* project and remove member (add member never writes), the DELs are issued
\* only by a request whose write has completed, after it; a request whose
\* write was refused issues no DEL, leaves datastore and cache as they were
\* and is answered 500.
InvalidationAfterCommit ==
    [][\A c \in Clients :
          LET r == reqs[c]
              q == reqs'[c]
              del == First(q.ops, "redisClient.del")
              write == IF At(q) = "deleteProject" THEN First(q.ops, "project.deleteOne")
                       ELSE First(q.ops, "project.save")
          IN (At(q) \in MutatingHandlers /\ q # r) =>
                /\ del > 0 => (0 < write /\ write < del /\ ~q.outage /\ q.status = 200)
                /\ (r.pc = "start" /\ q.pc # "start") => cache' = cache
                /\ q.outage =>
                      /\ q.pc = "done" /\ q.status = 500 /\ del = 0
                      /\ projects' = projects /\ cache' = cache]_vars

\* The write of a remove-member request is refused: 500, the member stays.
RefusedWriteAnswered500 ==
    \E c \in Clients :
        LET r == reqs[c] IN
        /\ At(r) = "removeProjectMember" /\ r.outage /\ r.status = 500
        /\ r.target \in projects[r.pid].members

\* C26: benign population race.  Two access checks for the same subject and
\* project that both missed the cache and both decided, no project being
\* written meanwhile, have returned the same decision, which is allow exactly
\* for a member of the project; the value left in the cache says the same.
BenignPopulationRace ==
    \A c, d \in Clients :
        LET r == reqs[c]
            s == reqs[d]
            e == RedisGet(cache, ProjectUserKey(r.pid, r.tok.sub), now)
            member == r.tok.sub \in projects[r.pid].members
        IN (/\ c # d /\ r.pid = s.pid /\ r.tok.sub = s.tok.sub
            /\ r.chk.dec \in {"allow", "deny"} /\ r.chk.reads = 1
            /\ s.chk.dec \in {"allow", "deny"} /\ s.chk.reads = 1)
           => /\ r.chk.dec = s.chk.dec
              /\ (r.chk.dec = "allow") <=> member
              /\ e.sval = IF member THEN "true" ELSE "false"

\* Both checks have missed and read the project; one has written its
\* decision and returned, the other is about to write over it.
SecondWriterPending ==
    \E c, d \in Clients :
        LET r == reqs[c]
            s == reqs[d]
        IN /\ c # d /\ r.pid = s.pid /\ r.tok.sub = s.tok.sub
           /\ r.chk.dec = "allow" /\ r.chk.reads = 1
           /\ At(s) = "validateProjectAccess" /\ s.pc = "setAccess" /\ s.hasAccess
           /\ RedisGet(cache, ProjectUserKey(r.pid, r.tok.sub), now).sval = "true"

\* C27: bounded staleness.  The step of an access check that returns a
\* decision from the cache writes nothing to the cache, and the entry it
\* returns was written no later than now and less than its TTL ago: whether
\* or not the decision still agrees with the project's members, it is
\* returned for at most the TTL after its write.
BoundedStaleness ==
    [][\A c \in Clients :
         LET r == reqs[c]
             q == reqs'[c]
             e == RedisGet(cache, ProjectUserKey(r.pid, r.user.id), now)
         IN (/\ At(r) = "validateProjectAccess" /\ r.pc = "start"
             /\ r.chk.dec = "none" /\ q.chk.dec \in {"allow", "deny"})
            => /\ cache' = cache
               /\ e.sval = IF q.chk.dec = "allow" THEN "true" ELSE "false"
               /\ e.exp - ProjectAccessTTL <= now /\ now < e.exp]_vars

\* A stale decision is returned: ten minutes after the write of the entry,
\* the reader is allowed from the cache to a project whose members it has
\* left meanwhile.
StaleAllowReturned ==
    LET r == reqs["c2"] IN
    /\ now = 600
    /\ r.chk.dec = "allow" /\ r.chk.reads = 0
    /\ projects[r.pid] # NoDoc /\ r.user.id \notin projects[r.pid].members
    /\ RedisGet(cache, ProjectUserKey(r.pid, r.user.id), now).exp = ProjectAccessTTL

\* C28: no value without TTL.  Every blacklist:<token> entry, every
\* refresh:<subject> entry and every permission decision in the cache has an
\* expiry, which lies in the future and no further than the lifetime its
\* write gave it: the rest of the token's life, seven days, one hour.  This
\* holds whatever request was cut short at whatever await.
NoValueWithoutTTL ==
    \A e \in cache :
        /\ e.key.ns = "blacklist" => now < e.exp /\ e.exp <= e.key.tok.exp
        /\ e.key.ns = "refresh" => now < e.exp /\ e.exp <= now + RefreshRecordTTL
        /\ (e.key.ns \in {"project", "task"} /\ e.key.tail = "user")
              => now < e.exp /\ e.exp <= now + ProjectAccessTTL

\* A logout cut short between its SET and its DELs: the connection was
\* reset, the blacklist entry is there with the token's remaining life and
\* the refresh record of the subject is still in the cache.
LogoutCutShort ==
    LET r == reqs["c1"] IN
    /\ r.route = "logout" /\ r.pc = "done" /\ r.failStage = "reset"
    /\ RedisGet(cache, BlacklistKey(r.tok), now).exp = r.tok.exp
    /\ RedisGet(cache, RefreshKey(r.tok.sub), now) # NoEntry
    /\ \E e \in cache : e.key.ns = "project" /\ e.key.tail = "user"

\* C29: the add-member request takes effect.  The step of addProjectMember
\* for a request that validateProjectMember has passed (it attached the
\* project and the user to add) puts the user among the project's members in
\* the datastore and answers 200.
AddMemberTakesEffect ==
    [][\A c \in Clients :
         LET r == reqs[c]
             q == reqs'[c]
         IN (/\ At(r) = "addProjectMember" /\ r.pc = "start" /\ q.pc = "done"
             /\ r.projectDocument # NoDoc /\ r.userDocument # NoUser)
            => /\ q.status = 200
               /\ r.target \in projects'[r.pid].members]_vars

\* C30: a cache hit and a cache miss are equivalent for the handler.  Two
\* GET /projects/:projectId requests of the same member for the same
\* project, both allowed by validateProjectAccess, one from the cache and one
\* from the datastore, get the same answer of getProjectById.
HitEquivalentToMiss ==
    \A c, d \in Clients :
        LET r == reqs[c]
            s == reqs[d]
        IN (/\ r.route = "getProjectById" /\ r.pc = "done"
            /\ s.route = "getProjectById" /\ s.pc = "done"
            /\ r.pid = s.pid /\ r.tok.sub = s.tok.sub
            /\ r.tok.sub \in projects[r.pid].members
            /\ r.chk.dec = "allow" /\ r.chk.reads = 1
            /\ s.chk.dec = "allow" /\ s.chk.reads = 0)
           => r.status = s.status /\ r.message = s.message

\* C31: the owner keeps access.  Whatever projects were created and whatever
\* members were added or removed, an access check that decides for the
\* subject who created the project returns allow.
OwnerKeepsAccess ==
    \A c \in Clients :
        LET r == reqs[c]
            project == ProjectFindById(projects, r.pid)
        IN (/\ r.chk.dec \in {"allow", "deny"}
            /\ project # NoDoc /\ project.createdBy = r.tok.sub)
           => r.chk.dec = "allow"

\* C32: logout revokes only the token presented.  While a subject has
\* logged out with one access token, a request with another access token of
\* the subject, not presented at any logout (this request's own included),
\* finds no blacklist entry for its token and is not refused as revoked: if
\* its credential fails at all, it is because the token has expired or the
\* account is gone.
LogoutRevokesPresentedOnly ==
    \A c \in Clients : \A t \in loggedOut :
        LET r == reqs[c] IN
        (/\ r.scheme = "bearer" /\ r.tok.kind = "access"
         /\ r.tok # t /\ r.tok.sub = t.sub /\ r.tok \notin loggedOut
         /\ ~(At(r) = "logout" /\ r.pc = "delete"))
        => /\ RedisGet(cache, BlacklistKey(r.tok), now) = NoEntry
           /\ r.failStage \in CredentialFailures => r.failStage \in {"expired", "subject"}

\* The subject has logged out with one token, the blacklist entry of that
\* token is in the cache, and a request with the token of the subject's
\* other login has passed authenticate.
OtherSessionAuthenticated ==
    \E t \in loggedOut :
        LET r == reqs["c1"] IN
        /\ r.tok.kind = "access" /\ r.tok # t /\ r.tok.sub = t.sub
        /\ r.tok \notin loggedOut
        /\ RedisGet(cache, BlacklistKey(t), now) # NoEntry
        /\ At(r) = "logout" /\ r.pc = "start" /\ r.user.id = t.sub

\* C33: logout leaves the refresh record of other sessions intact.  The step
\* that ends the logout of a session of a subject, taken while the cache holds
\* the refresh record written by a later login of the subject, leaves that
\* record in the cache.
LogoutSparesLaterLogin ==
    [][\A c \in Clients :
         LET r == reqs[c]
             u == r.user.id
             record == RedisGet(cache, RefreshKey(u), now)
         IN (/\ At(r) = "logout" /\ r.pc = "delete" /\ reqs'[c].pc = "done"
             /\ record # NoEntry /\ record.tval = lastRefresh[u]
             /\ r.token.iat < lastRefresh[u].iat)
            => RedisGet(cache', RefreshKey(u), now) = record]_vars

\* C34: role freshness.  The step of authenticate that calls next attaches
\* the role the datastore holds for the subject at that step, whatever role
\* the token carries; and authorize and validateProjectCreation decide by
\* the attached role when the token carries another one.
RoleFreshness ==
    [][\A c \in Clients :
         LET r == reqs[c]
             q == reqs'[c]
             passed == q.stage = r.stage + 1 /\ q.pc = "start"
         IN /\ (At(r) = "authenticate" /\ passed)
               => q.user.role = users[r.tok.sub]
            /\ (At(r) = "authorize" /\ r.pc = "start" /\ q # r
                  /\ r.user # NoUser /\ r.user.role # r.tok.role)
               => (passed <=> r.user.role \in r.allowed)
            /\ (At(r) = "validateProjectCreation" /\ r.pc = "start" /\ q # r
                  /\ r.user # NoUser /\ r.user.role # r.tok.role)
               => (passed <=> r.user.role \in {"admin", "manager"})]_vars

\* A request with a token issued to a member, whose role the datastore has
\* changed to admin since, has passed authorize(['admin']).
OldTokenNewRole ==
    LET r == reqs["c1"] IN
    /\ r.route = "createTask" /\ At(r) = "createTask"
    /\ r.allowed = {"admin"} /\ r.tok.role = "member"
    /\ users[r.tok.sub] = "admin"

\* The guards of the API.
Guards ==
    {"authenticate", "authorize", "validateProjectAccess", "validateProjectOwner",
     "validateTaskAccess"}

\* C35: exactly one outcome per request.  Every step of a guard either goes
\* on to the guard's next await, or calls next and sends nothing, or sends
\* one response and does not call next, also when the cache or the datastore
\* fails at the step; and a request that is in a guard has a step to take.
ExactlyOneOutcome ==
    /\ [][\A c \in Clients :
            LET r == reqs[c]
                q == reqs'[c]
                awaits == q.stage = r.stage /\ q.pc \notin {"start", "done"} /\ q.status = 0
                next == q.stage = r.stage + 1 /\ q.pc = "start" /\ q.status = 0
                responds == q.stage = r.stage /\ q.pc = "done" /\ q.status >= 400
            IN (InFlight(r) /\ At(r) \in Guards /\ q # r)
               => awaits \/ next \/ responds]_vars
    /\ [](\A c \in Clients :
            (InFlight(reqs[c]) /\ At(reqs[c]) \in Guards) => ENABLED OutcomeStep(c))

\* The owner check has answered 500 after the datastore failed at its
\* findById, the access check in front of it having called next.
OwnerCheckAnswered500 ==
    LET r == reqs["c1"] IN
    /\ At(r) = "validateProjectOwner" /\ r.pc = "done" /\ r.outage
    /\ r.status = 500 /\ r.chk.dec = "allow"

\* C36: a failed login changes nothing.  The step of login for a body with
\* a missing field, an unknown e-mail or a wrong password answers 400 or 401,
\* issues no token and leaves the cache as it was, refresh records and
\* blacklist entries included.
FailedLoginChangesNothing ==
    [][\A c \in Clients :
         LET r == reqs[c]
             q == reqs'[c]
             fails == \/ r.email = "" \/ r.password = ""
                      \/ users[r.email] \notin Roles
                      \/ profiles[r.email].password # BcryptHash(r.password)
         IN (At(r) = "login" /\ r.pc = "start" /\ q.pc = "done" /\ fails)
            => /\ q.status \in {400, 401}
               /\ cache' = cache /\ issued' = issued
               /\ refreshIssued' = refreshIssued /\ lastRefresh' = lastRefresh
               /\ loggedOut' = loggedOut]_vars

\* A login has been refused with 'Invalid credentials' while the refresh
\* record and the access token of a registered subject were in place.
LoginRefusedSessionOpen ==
    LET r == reqs["c1"] IN
    /\ r.route = "login" /\ r.pc = "done" /\ r.status = 401
    /\ users["u1"] \in Roles
    /\ RedisGet(cache, RefreshKey("u1"), now).tval = lastRefresh["u1"]
    /\ \E t \in issued : t.sub = "u1" /\ now < t.exp

\* C37: the project list follows project creation.  The step of getProjects
\* that answers 200 returns a list with every project the requester has
\* created, whether the list comes from the cache or from the datastore.
ListFollowsCreation ==
    [][\A c \in Clients :
         LET r == reqs[c]
             q == reqs'[c]
         IN (At(r) = "getProjects" /\ InFlight(r) /\ q.pc = "done" /\ q.status = 200)
            => \A p \in Projects :
                 LET project == ProjectFindById(projects, p) IN
                 (project # NoDoc /\ project.createdBy = r.user.id) => p \in q.data]_vars

====
